---- MODULE Spec2Model ----
(***************************************************************************)
(* Cache layer of the Zalo bot agent (google_search_agent_mongodb.py):     *)
(*   - RESPONSE_CACHE in front of GoogleSearchAgent.chat                   *)
(*   - QUERY_CACHE in front of search_uit_knowledge                        *)
(* Several serving threads (Flask's threaded server) run the two handlers  *)
(* against the two module-level dictionaries.  Nothing in the module takes *)
(* a lock, so every read and every write of a dictionary is a step of its  *)
(* own and the threads interleave between them.                            *)
(*                                                                         *)
(* Strings are sequences of character codes; None and str values are       *)
(* records tagged with their Python type.                                  *)
(*                                                                         *)
(* SpecChat runs chat alone, SpecQuery runs search_uit_knowledge alone     *)
(* with the clock, SpecBoth runs both handlers on one input each.          *)
(*                                                                         *)
(* SpecKb runs the searches of the knowledge bases (full-text, vector,     *)
(* hybrid, embedding generation) one call after another on one store.      *)
(* SpecKbLive is SpecKb with a provider that may never answer, under weak  *)
(* fairness of the client's read timeout and of the return of a call.      *)
(*                                                                         *)
(* SpecStore runs the writes to the document store (add_document,          *)
(* setup_indexes, the scraper, the crawler's save), SpecRate runs          *)
(* validate_input of guardrails.py for two users with the clock, SpecSend  *)
(* runs send_zalo_message, and SpecCrawl runs the loop of UEHCrawler.run.  *)
(***************************************************************************)
EXTENDS Integers, Sequences, FiniteSets, TLC

(***************************************************************************)
(* Bounds of the model.                                                    *)
(***************************************************************************)
NumThreads == 2
MaxCalls == 2
MaxLimit == 2
MaxWrites == 3
MaxValidations == 7
MaxWaits == 2
MaxLinks == 2
MaxNewUrls == 3

Threads == 1..NumThreads

(***************************************************************************)
(* Program constants.                                                      *)
(***************************************************************************)
RESPONSE_CACHE_MAX_SIZE == 100
CACHE_TTL == 3600
SNIPPET_LEN == 400
SEARCH_LIMIT == 3
MIN_CONTENT_LENGTH == 100
SCRAPE_MIN_CHARS == 50
CRAWL_CONTENT_LIMIT == 10000
RATE_LIMIT_WINDOW == 60
RATE_LIMIT_MAX_REQUESTS == 5
max_message_length == 2000
min_message_length == 1
max_length == 2000
MAX_PAGES == 1000
TicksPerSecond == 4

(***************************************************************************)
(* Strings, as sequences of character codes: ' ' is 32, 'A' 65, 'a' 97.    *)
(***************************************************************************)
Whitespace == {9, 10, 11, 12, 13, 32}

LowerChar(c) == IF c \in 65..90 THEN c + 32 ELSE c

\* str.lower()
Lower(s) == [i \in 1..Len(s) |-> LowerChar(s[i])]

RECURSIVE LStrip(_)
LStrip(s) == IF s # <<>> /\ Head(s) \in Whitespace THEN LStrip(Tail(s)) ELSE s

RECURSIVE RStrip(_)
RStrip(s) ==
    IF s # <<>> /\ s[Len(s)] \in Whitespace
    THEN RStrip(SubSeq(s, 1, Len(s) - 1))
    ELSE s

\* str.strip()
Strip(s) == LStrip(RStrip(s))

\* Python values
Str(v) == [type |-> "str", val |-> v]
None == [type |-> "NoneType", val |-> ""]

\* dict[key] = value
Put(d, k, v) == [x \in (DOMAIN d) \cup {k} |-> IF x = k THEN v ELSE d[x]]

\* len(dict)
Size(d) == Cardinality(DOMAIN d)

(***************************************************************************)
(* GoogleSearchAgent.chat: inputs and pure helpers.                        *)
(***************************************************************************)
\* "a", "A", " a", "b "
Messages == {<<97>>, <<65>>, <<32, 97>>, <<98, 32>>}

\* cache_key = message.lower().strip()
ResponseKey(m) == Strip(Lower(m))

\* What self.agent(...) hands back: the shapes chat tells apart.
Answers == {"x", "y"}
AgentResults ==
    {[shape |-> "text_block", text |-> a] : a \in Answers}
    \cup {[shape |-> "empty_content", text |-> ""]}

\* Extract text from AgentResult
ExtractText(r) ==
    CASE r.shape = "text_block" -> Str(r.text)
      [] r.shape = "empty_content" -> None
      [] r.shape = "content_not_list" -> None
      [] r.shape = "msg_not_dict" -> Str("str(msg)")
      [] r.shape = "no_message" -> Str("str(response)")

\* f"Error: {e}"
ChatError == Str("Error: e")

\* the size test off by one
HasRoom_Inclusive(cache) == Size(cache) <= RESPONSE_CACHE_MAX_SIZE

\* len(RESPONSE_CACHE) < RESPONSE_CACHE_MAX_SIZE
HasRoom(cache) == Size(cache) < RESPONSE_CACHE_MAX_SIZE

(***************************************************************************)
(* The response cache of a process that has already answered k distinct    *)
(* questions "1", "2", ..., "k" (decimal digits), each answered "old".     *)
(***************************************************************************)
RECURSIVE Digits(_)
Digits(i) == IF i < 10 THEN <<48 + i>> ELSE Append(Digits(i \div 10), 48 + (i % 10))

Answered(k) == [key \in {Digits(i) : i \in 1..k} |-> Str("old")]

PriorQuestions == {0, RESPONSE_CACHE_MAX_SIZE - 1, RESPONSE_CACHE_MAX_SIZE}

(***************************************************************************)
(* search_uit_knowledge: inputs and pure helpers.                          *)
(***************************************************************************)
\* "a", "A", "a "
Queries == {<<97>>, <<65>>, <<97, 32>>}

\* hashlib.md5(...).hexdigest(): one digest per input, no two inputs of the
\* model share one
Md5(s) == <<"md5", s>>

\* the key taken from the raw query
QueryKey_Raw(q) == Md5(q)

\* cache_key = hashlib.md5(query.lower().encode()).hexdigest()
QueryKey(q) == Md5(Lower(q))

\* The return values of search_uit_knowledge
Payload(kind, q, items) == [kind |-> kind, query |-> q, items |-> items]
NoPayload == Payload("unset", <<>>, <<>>)
KbUnavailable == Payload("kb_unavailable", <<>>, <<>>)
NotFound(q) == Payload("not_found", q, <<>>)
SearchError == Payload("error", <<>>, <<>>)

\* Documents the store can hand back; content is a text of a given length
DocA == [title |-> "t1", url |-> "u1", content |-> [text |-> "c1", len |-> 120]]
DocB == [title |-> "t2", url |-> "u2", content |-> [text |-> "c2", len |-> 950]]
DocNoContent == [title |-> "t3", url |-> "u3"]

\* What uit_kb.full_text_search(query, limit=3) can return; a failing store
\* gives [] as well (UITMongoKnowledgeBase.full_text_search swallows it)
SearchOutcomes ==
    {rs \in {<<>>, <<DocB, DocA>>, <<DocNoContent>>} : Len(rs) <= SEARCH_LIMIT}

\* item['title'], item['url'], item['content'] raise KeyError on a document
\* that lacks the field
Formattable(results) ==
    \A i \in 1..Len(results) : {"title", "url", "content"} \subseteq DOMAIN results[i]

\* content[:400] + "..." when len(content) > 400
Snippet(content) ==
    IF content.len > SNIPPET_LEN
    THEN [text |-> content.text, len |-> SNIPPET_LEN, dots |-> TRUE]
    ELSE [text |-> content.text, len |-> content.len, dots |-> FALSE]

\* lines 80-90: the numbered list of title, URL and snippet
FormatResults(results) ==
    Payload("results", <<>>,
            [i \in 1..Len(results) |->
                [n |-> i, title |-> results[i].title, url |-> results[i].url,
                 snippet |-> Snippet(results[i].content)]])

\* the age test with <= for <
Fresh_Inclusive(t, timestamp) == t - timestamp <= CACHE_TTL

\* datetime.now() - cached_data['timestamp'] < timedelta(seconds=CACHE_TTL)
Fresh(t, timestamp) == t - timestamp < CACHE_TTL

\* {'result': response, 'timestamp': datetime.now()}
Entry(response, t) == [result |-> response, timestamp |-> t]
NoEntry == Entry(NoPayload, -1)

\* The instants the clock takes: process start, one second short of a TTL
\* later, a full TTL later
Instants == {0, CACHE_TTL - 1, CACHE_TTL}

(***************************************************************************)
(* UEHMongoKnowledgeBase (ueh_knowledge_base_mongodb.py): the documents of *)
(* the collection, the embedding provider and the three searches.          *)
(*                                                                         *)
(* A similarity, a weight or a score is a fraction <<n, d>> with d > 0.    *)
(* Embeddings are integer vectors whose norms are integers, so that the    *)
(* cosine similarity of two of them is an exact fraction.                  *)
(***************************************************************************)
Frac(n, d) == <<n, d>>
FracLeq(a, b) == a[1] * b[2] <= b[1] * a[2]
FracLess(a, b) == a[1] * b[2] < b[1] * a[2]
FracEq(a, b) == a[1] * b[2] = b[1] * a[2]
FracAdd(a, b) == <<a[1] * b[2] + b[1] * a[2], a[2] * b[2]>>
FracMul(a, b) == <<a[1] * b[1], a[2] * b[2]>>

\* a score a document does not carry (no 'similarity_score' key, no
\* 'combined_score' key)
NoScore == <<0, 0>>

\* np.dot on two vectors of one length
RECURSIVE Dot(_, _)
Dot(v, w) == IF v = <<>> THEN 0 ELSE Head(v) * Head(w) + Dot(Tail(v), Tail(w))

\* np.linalg.norm
Norm(v) == CHOOSE n \in 0..Dot(v, v) : n * n = Dot(v, v)

\* cosine_similarity: 0.0 on a zero norm, and 0.0 from the except branch
\* when np.dot rejects vectors of different lengths
cosine_similarity(vec1, vec2) ==
    IF Len(vec1) # Len(vec2) THEN Frac(0, 1)
    ELSE IF Norm(vec1) = 0 \/ Norm(vec2) = 0 THEN Frac(0, 1)
    ELSE Frac(Dot(vec1, vec2), Norm(vec1) * Norm(vec2))

\* an insertion that puts an item before the items of equal key
RECURSIVE InsertDesc_TiesFirst(_, _)
InsertDesc_TiesFirst(sorted, x) ==
    IF sorted = <<>> THEN <<x>>
    ELSE IF FracLeq(Head(sorted).key, x.key) THEN <<x>> \o sorted
    ELSE <<Head(sorted)>> \o InsertDesc_TiesFirst(Tail(sorted), x)

\* list.sort(key=..., reverse=True) on a list of [key, item]: descending,
\* and stable (items with equal keys keep the order they had)
RECURSIVE InsertDesc(_, _)
InsertDesc(sorted, x) ==
    IF sorted = <<>> THEN <<x>>
    ELSE IF FracLess(Head(sorted).key, x.key) THEN <<x>> \o sorted
    ELSE <<Head(sorted)>> \o InsertDesc(Tail(sorted), x)

RECURSIVE SortDesc(_)
SortDesc(s) ==
    IF s = <<>> THEN <<>>
    ELSE InsertDesc(SortDesc(SubSeq(s, 1, Len(s) - 1)), s[Len(s)])

\* s[:n]
Take(s, n) == SubSeq(s, 1, IF n < Len(s) THEN n ELSE Len(s))

\* A stored document.  has_url, has_embedding: the key is present; score is
\* the textScore the store computes for the document on the query at hand
\* (0: no term of the query matches it)
StoredDoc(id, has_url, url, has_embedding, embedding, score) ==
    [content_id |-> id, has_url |-> has_url, url |-> url,
     has_embedding |-> has_embedding, embedding |-> embedding, score |-> score]

DocTwin1 == StoredDoc("c1", TRUE, "u1", TRUE, <<1, 0>>, 3)
DocTwin2 == StoredDoc("c2", TRUE, "u2", TRUE, <<1, 0>>, 0)
DocPlain == StoredDoc("c3", TRUE, "u3", FALSE, <<>>, 2)
DocNoUrl == StoredDoc("c4", FALSE, "", TRUE, <<3, 4>>, 1)
DocZeroNorm == StoredDoc("c5", TRUE, "u5", TRUE, <<0, 0>>, 0)
DocEmptyEmbedding == StoredDoc("c6", TRUE, "u6", TRUE, <<>>, 2)
DocShortEmbedding == StoredDoc("c7", TRUE, "u7", TRUE, <<1>>, 0)
DocNear == StoredDoc("c8", TRUE, "u8", TRUE, <<4, 3>>, 0)

\* The collections of the model; content_id and url are unique in each
\* (setup_indexes), and no two matching documents share a textScore
Collections ==
    { {},
      {DocPlain},
      {DocTwin1, DocTwin2, DocPlain},
      {DocPlain, DocNoUrl, DocZeroNorm},
      {DocTwin1, DocEmptyEmbedding, DocShortEmbedding},
      {DocTwin1, DocPlain, DocNoUrl, DocNear} }

\* The orders in which a find() without sort can hand over a set of documents
RECURSIVE Orders(_)
Orders(S) ==
    IF S = {} THEN {<<>>}
    ELSE UNION {{<<d>> \o rest : rest \in Orders(S \ {d})} : d \in S}

\* What invoke_model does: raises, answers without an 'embedding' key, or
\* answers with an embedding ([] included)
Providers ==
    {[kind |-> "raises", embedding |-> <<>>],
     [kind |-> "no_embedding_key", embedding |-> <<>>]}
    \cup {[kind |-> "ok", embedding |-> v] : v \in {<<>>, <<1, 0>>, <<0, 0>>}}

\* similarity_threshold: 0 (keep all), 0.3 (hybrid_search), 0.5 (default), 0.99
HYBRID_THRESHOLD == Frac(3, 10)
DEFAULT_THRESHOLD == Frac(1, 2)
Thresholds == {Frac(0, 1), HYBRID_THRESHOLD, DEFAULT_THRESHOLD, Frac(99, 100)}

\* text_weight, vector_weight: the defaults 0.3 and 0.7, and the ends 0 and 1
DEFAULT_TEXT_WEIGHT == Frac(3, 10)
DEFAULT_VECTOR_WEIGHT == Frac(7, 10)
Weights == {Frac(0, 1), DEFAULT_TEXT_WEIGHT, DEFAULT_VECTOR_WEIGHT, Frac(1, 1)}

\* limit
Limits == 1..MaxLimit

\* A document as a search returns it: _id, embedding and score popped
Returned(d) ==
    [content_id |-> d.content_id, has_url |-> d.has_url, url |-> d.url,
     similarity_score |-> NoScore, combined_score |-> NoScore]

\* doc.get('url', doc.get('content_id', ''))
DocKey(doc) == IF doc.has_url THEN doc.url ELSE doc.content_id

\* doc.get('similarity_score', 0)
SimilarityOf(doc) ==
    IF doc.similarity_score = NoScore THEN Frac(0, 1) ELSE doc.similarity_score

\* The value generate_embedding hands back: None or a list of numbers
NoEmbedding == [is_none |-> TRUE, vec |-> <<>>]
Embedding(v) == [is_none |-> FALSE, vec |-> v]

VARIABLES
    pc,               \* per thread: where it is in its handler
    calls,            \* number of calls begun so far
    RESPONSE_CACHE,   \* normalized message -> answer
    message,          \* chat: the argument
    cache_key,        \* chat: local cache_key
    result_text,      \* chat: local result_text
    ret,              \* chat: the value returned
    agent_calls,      \* chat: times self.agent was invoked by this call
    cache_writes,     \* chat: stores to RESPONSE_CACHE made by this call
    full_at_call,     \* chat: RESPONSE_CACHE was full when the call began
    QUERY_CACHE,      \* md5 key -> entry (result, timestamp)
    uit_kb,           \* FALSE when the knowledge base failed to initialise
    now,              \* the clock, in seconds
    query,            \* search: the argument
    qkey,             \* search: local cache_key
    cached_data,      \* search: local cached_data (the entry object read)
    response,         \* search: local response
    qret,             \* search: the value returned
    searches,         \* search: times full_text_search was run by this call
    qwrites,          \* search: stores to QUERY_CACHE made by this call
    stored,           \* search: the entry this call put into QUERY_CACHE
    written,          \* every entry a call has stored, with its key and query
    finished_before,  \* search: the threads whose call had returned when this one began
    collection,       \* kb: the stored documents
    enable_vector_search, \* kb: self.enable_vector_search
    bedrock,          \* kb: what invoke_model does when asked for an embedding
    text_index,       \* kb: "down" when the $text query fails
    store_scan,       \* kb: "raises" when the scan for embeddings fails
    kb_call,          \* kb: the last call made, with its arguments
    kb_out,           \* kb: what that call handed back
    awaiting,         \* kb: invoke_model was called and has not come back
    store,            \* store: the documents of the collection, each with its _id
    url_index,        \* store: the unique index url_index exists
    content_id_index, \* store: the unique index content_id_index exists
    updates,          \* store: add_document calls made (the clock of updated_at)
    added,            \* store: content_id -> what the last add_document that returned wrote
    replaced,         \* store: the stored document the last add_document replaced
    add_result,       \* store: how the last add_document ended
    scraped,          \* scraper: what scrape_page handed back last
    crawler_documents, \* crawler: self.documents
    USER_RATE_LIMITS, \* guardrails: user_id -> the times of the requests let through
    clock,            \* guardrails: time.time(), in ticks
    verdict,          \* guardrails: what the last validate_input returned
    passes,           \* guardrails: user_id -> every time the rate check let the user through
    validations,      \* guardrails: validate_input calls made
    waits,            \* guardrails: times the clock was advanced
    sending,          \* send_zalo_message: a call is under way
    original,         \* send_zalo_message: the argument message
    chunks,           \* send_zalo_message: local chunks
    chunk_i,          \* send_zalo_message: the loop index i
    posted,           \* send_zalo_message: the texts posted, in order, with what came of each
    site,             \* crawler: the URLs is_valid_url accepts
    visited_urls,     \* crawler: self.visited_urls
    to_visit,         \* crawler: self.to_visit
    pages_crawled,    \* crawler: self.pages_crawled
    fetched,          \* crawler: the URLs crawl_page was called with, in order
    crawl_pc          \* crawler: "running" inside the loop of run, "done" after it

chat_state == <<RESPONSE_CACHE, message, cache_key, result_text, ret,
                agent_calls, cache_writes, full_at_call>>

query_state == <<QUERY_CACHE, uit_kb, now, query, qkey, cached_data, response,
                 qret, searches, qwrites, stored,
                 written, finished_before>>

kb_state == <<collection, enable_vector_search, bedrock, text_index, store_scan,
              kb_call, kb_out, awaiting>>

store_state == <<store, url_index, content_id_index, updates, added, replaced,
                 add_result, scraped, crawler_documents>>

rate_state == <<USER_RATE_LIMITS, clock, verdict, passes, validations, waits>>

send_state == <<sending, original, chunks, chunk_i, posted>>

crawl_state == <<site, visited_urls, to_visit, pages_crawled, fetched, crawl_pc>>

ext_state == <<store_state, rate_state, send_state, crawl_state>>

vars == <<pc, calls, chat_state, query_state, kb_state, ext_state>>

NoValue == [type |-> "unset", val |-> ""]

ChatIdle(prior) ==
    /\ RESPONSE_CACHE \in {Answered(k) : k \in prior}
    /\ message = [p \in Threads |-> <<>>]
    /\ cache_key = [p \in Threads |-> <<>>]
    /\ result_text = [p \in Threads |-> NoValue]
    /\ ret = [p \in Threads |-> NoValue]
    /\ agent_calls = [p \in Threads |-> 0]
    /\ cache_writes = [p \in Threads |-> 0]
    /\ full_at_call = [p \in Threads |-> FALSE]

\* The query cache of a process that has answered the search "a" at start
\* time (earlier = TRUE), or none yet
EarlierSearch == [key |-> QueryKey(<<97>>), query |-> <<97>>,
                  entry |-> Entry(FormatResults(<<DocA>>), 0)]

QueryIdle(kbs, earlier) ==
    /\ uit_kb \in kbs
    /\ \E e \in earlier :
          /\ e => uit_kb
          /\ QUERY_CACHE = IF e THEN Put(<<>>, EarlierSearch.key, EarlierSearch.entry)
                                 ELSE <<>>
          /\ written = IF e THEN {EarlierSearch} ELSE {}
    /\ now = 0
    /\ query = [p \in Threads |-> <<>>]
    /\ qkey = [p \in Threads |-> <<>>]
    /\ cached_data = [p \in Threads |-> NoEntry]
    /\ response = [p \in Threads |-> NoPayload]
    /\ qret = [p \in Threads |-> NoPayload]
    /\ searches = [p \in Threads |-> 0]
    /\ qwrites = [p \in Threads |-> 0]
    /\ stored = [p \in Threads |-> NoEntry]
    /\ finished_before = [p \in Threads |-> {}]

(***************************************************************************)
(* UEHMongoKnowledgeBase: the searches, on the documents in the order the  *)
(* store hands them over (scan).                                           *)
(***************************************************************************)
\* What a call hands to its caller
Outcome(raised, docs, value, invocations, answer) ==
    [raised |-> raised, docs |-> docs, value |-> value,
     invocations |-> invocations, answer |-> answer]

NoOutcome == Outcome(FALSE, <<>>, NoEmbedding, 0, NoPayload)

\* generate_embedding that asks the provider a second time after a failure
generate_embedding_Retry ==
    IF ~enable_vector_search THEN Outcome(FALSE, <<>>, NoEmbedding, 0, NoPayload)
    ELSE IF bedrock.kind \in {"raises", "silent"}
         THEN Outcome(FALSE, <<>>, NoEmbedding, 2, NoPayload)
    ELSE IF bedrock.kind = "no_embedding_key" \/ bedrock.embedding = <<>>
         THEN Outcome(FALSE, <<>>, NoEmbedding, 1, NoPayload)
    ELSE Outcome(FALSE, <<>>, Embedding(bedrock.embedding), 1, NoPayload)

\* generate_embedding, lines 161-188: None without a call when vector search
\* is off; one invoke_model; None from the except branch (an error of the
\* provider, or the client's read timeout on a provider that stays silent),
\* and None for a missing or empty 'embedding'
generate_embedding ==
    IF ~enable_vector_search THEN Outcome(FALSE, <<>>, NoEmbedding, 0, NoPayload)
    ELSE IF bedrock.kind \in {"raises", "silent"}
         THEN Outcome(FALSE, <<>>, NoEmbedding, 1, NoPayload)
    ELSE IF bedrock.kind = "no_embedding_key" \/ bedrock.embedding = <<>>
         THEN Outcome(FALSE, <<>>, NoEmbedding, 1, NoPayload)
    ELSE Outcome(FALSE, <<>>, Embedding(bedrock.embedding), 1, NoPayload)

\* full_text_search, lines 141-157: the matching documents by descending
\* textScore, at most limit of them; [] from the except branch when the
\* $text query fails
full_text_search(scan, limit) ==
    IF text_index = "down" THEN <<>>
    ELSE LET matching == SelectSeq(scan, LAMBDA d : d.score > 0)
             ranked == SortDesc([i \in 1..Len(matching) |->
                                   [key |-> Frac(matching[i].score, 1),
                                    item |-> matching[i]]])
         IN  Take([i \in 1..Len(ranked) |-> Returned(ranked[i].item)], limit)

\* vector_search, lines 220-252
vector_search(scan, limit, similarity_threshold) ==
    IF ~enable_vector_search THEN full_text_search(scan, limit)
    ELSE LET query_embedding == generate_embedding IN
         IF \/ query_embedding.raised
            \/ query_embedding.value.is_none
            \/ query_embedding.value.vec = <<>>
            \/ store_scan = "raises"
         THEN full_text_search(scan, limit)
         ELSE LET documents == SelectSeq(scan, LAMBDA d : d.has_embedding)
                  Similarity(d) ==
                      cosine_similarity(query_embedding.value.vec, d.embedding)
                  kept == SelectSeq(documents,
                              LAMBDA d : /\ d.embedding # <<>>
                                         /\ FracLeq(similarity_threshold, Similarity(d)))
                  results == SortDesc([i \in 1..Len(kept) |->
                                 [key |-> Similarity(kept[i]),
                                  item |-> [Returned(kept[i]) EXCEPT
                                              !.similarity_score = Similarity(kept[i])]]])
              IN  Take([i \in 1..Len(results) |-> results[i].item], limit)

\* the place of the last document of a list with key k
LastWith(list, k) ==
    CHOOSE i \in 1..Len(list) :
        /\ DocKey(list[i]) = k
        /\ \A j \in 1..Len(list) : DocKey(list[j]) = k => j <= i

HasKey(list, k) == \E i \in 1..Len(list) : DocKey(list[i]) = k

\* {key(doc): doc for doc in list}.items(): a key stands where it was first
\* inserted and holds the last document inserted under it
DictItems(list) ==
    LET firsts == SelectSeq([i \in 1..Len(list) |-> i],
                      LAMBDA i : \A j \in 1..(i - 1) : DocKey(list[j]) # DocKey(list[i]))
    IN  [n \in 1..Len(firsts) |-> list[LastWith(list, DocKey(list[firsts[n]]))]]

\* a reciprocal rank that counts places from 1
ReciprocalRank_FromOne(i) == Frac(1, i + 2)

\* 1.0 / (i + 1), for the document at place i of the list (enumerate: the
\* first place is 0)
ReciprocalRank(i) == Frac(1, i + 1)

\* candidates taken from the vector results alone
Candidates_VectorOnly(text_results, vector_results) == DictItems(vector_results)

\* all_docs, line 280: the documents of text_results + vector_results
Candidates(text_results, vector_results) == DictItems(text_results \o vector_results)

\* hybrid_search, lines 267-295.  Neither full_text_search nor vector_search
\* raises, so the except branch of lines 297-299 is never entered.
hybrid_search(scan, limit, text_weight, vector_weight) ==
    IF ~enable_vector_search THEN full_text_search(scan, limit)
    ELSE LET text_results == full_text_search(scan, limit * 2)
             vector_results == vector_search(scan, limit * 2, HYBRID_THRESHOLD)
             text_score(k) ==
                 IF HasKey(text_results, k)
                 THEN ReciprocalRank(LastWith(text_results, k) - 1) ELSE Frac(0, 1)
             vector_score(k) ==
                 IF HasKey(vector_results, k)
                 THEN SimilarityOf(vector_results[LastWith(vector_results, k)])
                 ELSE Frac(0, 1)
             all_docs == Candidates(text_results, vector_results)
             combined_score(doc) ==
                 FracAdd(FracMul(text_weight, text_score(DocKey(doc))),
                         FracMul(vector_weight, vector_score(DocKey(doc))))
             combined_results == SortDesc([i \in 1..Len(all_docs) |->
                 [key |-> combined_score(all_docs[i]),
                  item |-> [all_docs[i] EXCEPT
                              !.combined_score = combined_score(all_docs[i]),
                              !.similarity_score = NoScore]]])
         IN  Take([i \in 1..Len(combined_results) |-> combined_results[i].item], limit)

\* UITMongoKnowledgeBase.full_text_search (uit_knowledge_base_mongodb.py,
\* lines 120-135): what the $text query matches, or [] from the except branch
uit_full_text_search(matches) == IF text_index = "down" THEN <<>> ELSE matches

\* search_uit_knowledge without the test of line 76: an empty result list is
\* formatted like any other
search_uit_knowledge_Unguarded(q, matches) ==
    LET results == uit_full_text_search(matches) IN
    IF ~Formattable(results) THEN SearchError
    ELSE FormatResults(results)

\* search_uit_knowledge past a cache miss, lines 70-103
search_uit_knowledge(q, matches) ==
    LET results == uit_full_text_search(matches) IN
    IF results = <<>> THEN NotFound(q)
    ELSE IF ~Formattable(results) THEN SearchError
    ELSE FormatResults(results)

Call(op, limit, threshold, text_weight, vector_weight) ==
    [op |-> op, limit |-> limit, similarity_threshold |-> threshold,
     text_weight |-> text_weight, vector_weight |-> vector_weight,
     query |-> <<>>, matches |-> <<>>]

\* a call of search_uit_knowledge(q), with what the $text query matches
UitCall(q, matches) ==
    [Call("search_uit_knowledge", SEARCH_LIMIT, NoScore, NoScore, NoScore) EXCEPT
        !.query = q, !.matches = matches]

NoCall == Call("none", 0, NoScore, NoScore, NoScore)

KbIdle(collections, flags, providers, indexes, scans) ==
    /\ collection \in collections
    /\ enable_vector_search \in flags
    /\ bedrock \in providers
    /\ text_index \in indexes
    /\ store_scan \in scans
    /\ kb_call = NoCall
    /\ kb_out = NoOutcome
    /\ awaiting = FALSE

KbQuiet == KbIdle({{}}, {FALSE}, {[kind |-> "raises", embedding |-> <<>>]},
                  {"up"}, {"ok"})

\* A provider that takes the request of invoke_model, lines 170-179, and
\* never answers: the call is pending inside the client
SilentProvider == [kind |-> "silent", embedding |-> <<>>]
Unanswered == enable_vector_search /\ bedrock = SilentProvider

kb_env == <<collection, enable_vector_search, bedrock, text_index, store_scan>>

CallGenerateEmbedding ==
    /\ kb_call = NoCall
    /\ kb_call' = Call("generate_embedding", 0, NoScore, NoScore, NoScore)
    /\ awaiting' = Unanswered
    /\ kb_out' = generate_embedding
    /\ UNCHANGED <<pc, calls, chat_state, query_state, kb_env, ext_state>>

CallFullTextSearch(scan, limit) ==
    /\ kb_call = NoCall
    /\ kb_call' = Call("full_text_search", limit, NoScore, NoScore, NoScore)
    /\ awaiting' = FALSE
    /\ kb_out' = Outcome(FALSE, full_text_search(scan, limit), NoEmbedding, 0, NoPayload)
    /\ UNCHANGED <<pc, calls, chat_state, query_state, kb_env, ext_state>>

CallVectorSearch(scan, limit, threshold) ==
    /\ kb_call = NoCall
    /\ kb_call' = Call("vector_search", limit, threshold, NoScore, NoScore)
    /\ awaiting' = Unanswered
    /\ kb_out' = Outcome(FALSE, vector_search(scan, limit, threshold),
                         NoEmbedding, 0, NoPayload)
    /\ UNCHANGED <<pc, calls, chat_state, query_state, kb_env, ext_state>>

CallHybridSearch(scan, limit, text_weight, vector_weight) ==
    /\ kb_call = NoCall
    /\ kb_call' = Call("hybrid_search", limit, NoScore, text_weight, vector_weight)
    /\ awaiting' = Unanswered
    /\ kb_out' = Outcome(FALSE,
                         hybrid_search(scan, limit, text_weight, vector_weight),
                         NoEmbedding, 0, NoPayload)
    /\ UNCHANGED <<pc, calls, chat_state, query_state, kb_env, ext_state>>

CallSearchUit(q, matches) ==
    /\ kb_call = NoCall
    /\ kb_call' = UitCall(q, matches)
    /\ awaiting' = FALSE
    /\ kb_out' = Outcome(FALSE, <<>>, NoEmbedding, 0, search_uit_knowledge(q, matches))
    /\ UNCHANGED <<pc, calls, chat_state, query_state, kb_env, ext_state>>

\* the call has returned; the next one can be made
KbReturn ==
    /\ kb_call # NoCall
    /\ ~awaiting
    /\ kb_call' = NoCall
    /\ kb_out' = NoOutcome
    /\ awaiting' = FALSE
    /\ UNCHANGED <<pc, calls, chat_state, query_state, kb_env, ext_state>>

\* A call on a silent provider is pending inside invoke_model (awaiting);
\* kb_out is what it hands over once it comes back, with the documents in the
\* order the scan that follows will have.
\* The read timeout of the client, lines 65-68 (created with the default
\* configuration, which bounds the wait for an answer): the pending
\* invoke_model is given up with an exception inside the try of lines 165-188,
\* generate_embedding returns None, and the search goes on from line 227 as
\* after any other embedding failure
InvokeTimeout_Escapes ==
    /\ kb_call # NoCall
    /\ awaiting
    /\ awaiting' = FALSE
    /\ kb_out' = Outcome(TRUE, <<>>, NoEmbedding, 1, NoPayload)
    /\ UNCHANGED <<pc, calls, chat_state, query_state, kb_env, kb_call, ext_state>>

InvokeTimeout ==
    /\ kb_call # NoCall
    /\ awaiting
    /\ awaiting' = FALSE
    /\ UNCHANGED <<pc, calls, chat_state, query_state, kb_env, kb_call, kb_out,
                   ext_state>>

KbNext ==
    \/ CallGenerateEmbedding
    \/ \E scan \in Orders(collection), limit \in Limits :
          CallFullTextSearch(scan, limit)
    \/ \E scan \in Orders(collection), limit \in Limits, threshold \in Thresholds :
          CallVectorSearch(scan, limit, threshold)
    \/ \E scan \in Orders(collection), limit \in Limits,
          text_weight \in Weights, vector_weight \in Weights :
          CallHybridSearch(scan, limit, text_weight, vector_weight)
    \/ \E q \in Queries, matches \in SearchOutcomes : CallSearchUit(q, matches)
    \/ KbReturn

\* the searches with a provider that may stay silent
KbLiveNext == KbNext \/ InvokeTimeout

(***************************************************************************)
(* The document store: add_document and setup_indexes of the knowledge     *)
(* bases, UITScraper.scrape_page, and the crawler's documents and save.    *)
(* A document is a dict; its content is modelled by its length.            *)
(***************************************************************************)
\* the dict with the given (field, value) pairs
Dict(pairs) == [k \in {p[1] : p \in pairs} |-> (CHOOSE p \in pairs : p[1] = k)[2]]

\* None, and the empty dict
NoDoc == Dict({})

Has(d, f) == f \in DOMAIN d

\* "u1", "u2"
Url1 == <<117, 49>>
Url2 == <<117, 50>>
Urls == {Url1, Url2}

\* a content_id the caller supplies ('uit_2025_admission_methods')
OwnId == <<"id", <<109>>>>

\* the _id the store gives an inserted document
ObjectId(n) == <<"oid", <<n>>>>

\* the manual entry of setup_mongodb_knowledge_base: its own content_id; once
\* with an embedding (as generate_embeddings leaves it), once without
DocManual ==
    Dict({<<"content_id", OwnId>>, <<"url", Url1>>, <<"content", 120>>,
          <<"embedding", <<1, 0>>>>})
DocManualPlain ==
    Dict({<<"content_id", OwnId>>, <<"url", Url1>>, <<"content", 120>>})

\* a document without content_id
DocByUrl(url, n) == Dict({<<"url", url>>, <<"content", n>>})

\* what callers pass to add_document
AddInputs ==
    {DocManual, DocManualPlain, DocByUrl(Url1, MIN_CONTENT_LENGTH),
     DocByUrl(Url2, MIN_CONTENT_LENGTH - 1)}

\* the value a unique index holds for a document: a missing field counts as null
IndexKey(d, f) == IF Has(d, f) THEN d[f] ELSE <<>>

Unique(coll, f) ==
    \A d1 \in coll, d2 \in coll : d1 # d2 => IndexKey(d1, f) # IndexKey(d2, f)

\* DuplicateKeyError: new would share an indexed value with one of others
Violates(others, new) ==
    \/ url_index /\ \E d \in others : IndexKey(d, "url") = IndexKey(new, "url")
    \/ content_id_index
       /\ \E d \in others : IndexKey(d, "content_id") = IndexKey(new, "content_id")

\* add_document, lines 94-98: content_id from the url when absent, updated_at
Stamped(document, at) ==
    Put(Put(document, "content_id",
            IF Has(document, "content_id") THEN document.content_id
            ELSE Md5(document.url)),
        "updated_at", at)

\* the filter {'content_id': ...} of replace_one
Matching(coll, content_id) ==
    {d \in coll : Has(d, "content_id") /\ d.content_id = content_id}

\* an upsert that merges the new fields into the stored document
Replacement_Merge(old, doc) ==
    [k \in (DOMAIN old) \cup (DOMAIN doc) |-> IF Has(doc, k) THEN doc[k] ELSE old[k]]

\* replace_one: the stored document becomes doc, under the _id it had
Replacement(old, doc) == Put(doc, "_id", old._id)

StoreIdle ==
    /\ store = {}
    /\ url_index = FALSE
    /\ content_id_index = FALSE
    /\ updates = 0
    /\ added = NoDoc
    /\ replaced = NoDoc
    /\ add_result = "none"
    /\ scraped = NoDoc
    /\ crawler_documents = <<>>

\* setup_indexes, lines 56-79: the indexes in order inside one try; the first
\* create_index that raises ends it, and the exception is printed
SetupIndexes(early) ==
    /\ IF early = "raises" \/ ~Unique(store, "url")
       THEN UNCHANGED <<url_index, content_id_index>>
       ELSE /\ url_index' = TRUE
            /\ content_id_index' = (content_id_index \/ Unique(store, "content_id"))
    /\ UNCHANGED <<store, updates, added, replaced, add_result, scraped,
                   crawler_documents>>
    /\ UNCHANGED <<pc, calls, chat_state, query_state, kb_state, rate_state,
                   send_state, crawl_state>>

\* add_document, lines 81-107
AddDocument(document) ==
    /\ updates < MaxWrites
    /\ updates' = updates + 1
    /\ LET doc == Stamped(document, updates + 1)
           matching == Matching(store, doc.content_id)
       IN  \E old \in IF matching = {} THEN {NoDoc} ELSE matching :
              LET new == IF old = NoDoc THEN Put(doc, "_id", ObjectId(updates + 1))
                         ELSE Replacement(old, doc)
                  others == store \ {old}
              IN  IF Violates(others, new)
                  THEN /\ add_result' = "raised"
                       /\ replaced' = NoDoc
                       /\ UNCHANGED <<store, added>>
                  ELSE /\ add_result' = "written"
                       /\ replaced' = old
                       /\ store' = others \cup {new}
                       /\ added' = Put(added, doc.content_id, doc)
    /\ UNCHANGED <<url_index, content_id_index, scraped, crawler_documents>>
    /\ UNCHANGED <<pc, calls, chat_state, query_state, kb_state, rate_state,
                   send_state, crawl_state>>

\* UITScraper.scrape_page, lines 222-255: None for a page of fewer than 50
\* characters (and for one that cannot be fetched)
ScrapePage(url, n) ==
    /\ scraped' = IF n < SCRAPE_MIN_CHARS THEN NoDoc
                  ELSE Dict({<<"content_id", Md5(url)>>, <<"url", url>>,
                             <<"content", n>>})
    /\ UNCHANGED <<store, url_index, content_id_index, updates, added, replaced,
                   add_result, crawler_documents>>
    /\ UNCHANGED <<pc, calls, chat_state, query_state, kb_state, rate_state,
                   send_state, crawl_state>>

\* UEHCrawler.crawl_page, lines 193-216, for a url run has not visited yet
CrawlDocument(url, n) ==
    /\ \A i \in 1..Len(crawler_documents) : crawler_documents[i].url # url
    /\ crawler_documents' =
          IF n > MIN_CONTENT_LENGTH
          THEN Append(crawler_documents,
                      Dict({<<"_id", Md5(url)>>, <<"url", url>>,
                            <<"content", IF n < CRAWL_CONTENT_LIMIT THEN n
                                         ELSE CRAWL_CONTENT_LIMIT>>}))
          ELSE crawler_documents
    /\ UNCHANGED <<store, url_index, content_id_index, updates, added, replaced,
                   add_result, scraped>>
    /\ UNCHANGED <<pc, calls, chat_state, query_state, kb_state, rate_state,
                   send_state, crawl_state>>

\* UEHCrawler.save_to_mongodb, lines 234-267: the collection is dropped, its
\* indexes with it, and the documents inserted
SaveToMongodb ==
    /\ crawler_documents # <<>>
    /\ store' = {crawler_documents[i] : i \in 1..Len(crawler_documents)}
    /\ url_index' = FALSE
    /\ content_id_index' = FALSE
    /\ added' = NoDoc
    /\ replaced' = NoDoc
    /\ UNCHANGED <<updates, add_result, scraped, crawler_documents>>
    /\ UNCHANGED <<pc, calls, chat_state, query_state, kb_state, rate_state,
                   send_state, crawl_state>>

StoreNext ==
    \/ \E early \in {"ok", "raises"} : SetupIndexes(early)
    \/ \E document \in AddInputs \cup ({scraped} \ {NoDoc}) : AddDocument(document)
    \/ \E url \in Urls, n \in {SCRAPE_MIN_CHARS - 1, SCRAPE_MIN_CHARS} :
          ScrapePage(url, n)
    \/ \E url \in Urls, n \in {MIN_CONTENT_LENGTH, MIN_CONTENT_LENGTH + 1} :
          CrawlDocument(url, n)
    \/ SaveToMongodb

(***************************************************************************)
(* guardrails.py: GuardrailValidator.validate_input and the rate limit.    *)
(* time.time() is a float; the model counts it in quarters of a second,    *)
(* so RATE_LIMIT_WINDOW is Window ticks.                                   *)
(***************************************************************************)
Window == RATE_LIMIT_WINDOW * TicksPerSecond

Users == {"rate_limit_test", "other"}

\* "hi", "DM", "!!"
ClientMessages == {<<104, 105>>, <<68, 77>>, <<33, 33>>}

\* of BLOCKED_KEYWORDS, lines 21-86: 'dm', 'cc'
BLOCKED_KEYWORDS == {<<100, 109>>, <<99, 99>>}

\* keyword in message
Contains(s, k) ==
    \E i \in 1..(Len(s) - Len(k) + 1) : SubSeq(s, i, i + Len(k) - 1) = k

\* _check_blocked_keywords, lines 160-166
check_blocked_keywords(text) ==
    \E keyword \in BLOCKED_KEYWORDS : Contains(Lower(text), Lower(keyword))

\* c.isalnum(), for the ASCII characters of the model
IsAlnum(c) == c \in (48..57) \cup (65..90) \cup (97..122)

\* message.split()
RECURSIVE Split(_)
Split(s) ==
    LET t == LStrip(s) IN
    IF t = <<>> THEN <<>>
    ELSE LET k == CHOOSE i \in 1..(Len(t) + 1) :
                     /\ i = Len(t) + 1 \/ t[i] \in Whitespace
                     /\ \A j \in 1..(i - 1) : t[j] \notin Whitespace
         IN  <<SubSeq(t, 1, k - 1)>> \o Split(SubSeq(t, k, Len(t)))

\* _is_spam, lines 168-182: more than 5 words with under 30% of them unique,
\* or more than half of the characters neither alphanumeric nor space
is_spam(text) ==
    LET words == Split(text)
        unique_words == {words[i] : i \in 1..Len(words)}
        special_char_count ==
            Cardinality({i \in 1..Len(text) :
                            ~IsAlnum(text[i]) /\ text[i] \notin Whitespace})
    IN  \/ Len(words) > 5 /\ 10 * Cardinality(unique_words) < 3 * Len(words)
        \/ Len(text) > 0 /\ 2 * special_char_count > Len(text)

\* f"{wait_time:.0f}": the seconds of n ticks rounded to the nearest whole
\* number, a half to the even one
RoundSeconds(n) ==
    LET q == n \div TicksPerSecond
        r == n % TicksPerSecond
    IN  IF 2 * r < TicksPerSecond THEN q
        ELSE IF 2 * r > TicksPerSecond THEN q + 1
        ELSE IF q % 2 = 0 THEN q ELSE q + 1

\* the limit test that lets one request more through
AtLimit_Exclusive(kept) == Len(kept) > RATE_LIMIT_MAX_REQUESTS

\* line 151: len(USER_RATE_LIMITS[user_id]) >= RATE_LIMIT_MAX_REQUESTS
AtLimit(kept) == Len(kept) >= RATE_LIMIT_MAX_REQUESTS

\* the cleaning that also keeps an entry exactly one window old
Recent_Inclusive(times, at) == SelectSeq(times, LAMBDA t : at - t <= Window)

\* lines 145-148: the entries younger than the window
Recent(times, at) == SelectSeq(times, LAMBDA t : at - t < Window)

\* what validate_input returned: is_valid, which check refused, and for the
\* rate limit the wait_time of _check_rate_limit and the seconds the message
\* names
Verdict(user_id, text, at, error, wait_time) ==
    [user_id |-> user_id, message |-> text, at |-> at,
     is_valid |-> (error = "none"), error |-> error,
     wait_time |-> wait_time, told |-> RoundSeconds(wait_time)]

NoVerdict == Verdict("", <<>>, 0, "no_call", 0)

RateIdle ==
    /\ USER_RATE_LIMITS = [u \in Users |-> <<>>]
    /\ clock = 0
    /\ verdict = NoVerdict
    /\ passes = [u \in Users |-> <<>>]
    /\ validations = 0
    /\ waits = 0

\* validate_input, lines 103-133, with _check_rate_limit, lines 135-158
ValidateInput(user_id, text) ==
    /\ validations < MaxValidations
    /\ validations' = validations + 1
    /\ LET kept == Recent(USER_RATE_LIMITS[user_id], clock)
       IN  IF AtLimit(kept)
           THEN LET wait_time == Window - (clock - kept[1]) IN
                /\ USER_RATE_LIMITS' = [USER_RATE_LIMITS EXCEPT ![user_id] = kept]
                /\ verdict' = Verdict(user_id, text, clock, "rate",
                                      IF wait_time > 0 THEN wait_time ELSE 0)
                /\ UNCHANGED passes
           ELSE /\ USER_RATE_LIMITS' =
                      [USER_RATE_LIMITS EXCEPT ![user_id] = Append(kept, clock)]
                /\ passes' = [passes EXCEPT ![user_id] = Append(@, clock)]
                /\ verdict' =
                      Verdict(user_id, text, clock,
                              IF Len(text) < min_message_length THEN "short"
                              ELSE IF Len(text) > max_message_length THEN "long"
                              ELSE IF check_blocked_keywords(text) THEN "blocked"
                              ELSE IF is_spam(text) THEN "spam"
                              ELSE "none",
                              0)
    /\ UNCHANGED <<clock, waits>>
    /\ UNCHANGED <<pc, calls, chat_state, query_state, kb_state, store_state,
                   send_state, crawl_state>>

\* time passes between two calls
Advance(d) ==
    /\ waits < MaxWaits
    /\ waits' = waits + 1
    /\ clock' = clock + d
    /\ UNCHANGED <<USER_RATE_LIMITS, verdict, passes, validations>>
    /\ UNCHANGED <<pc, calls, chat_state, query_state, kb_state, store_state,
                   send_state, crawl_state>>

\* the user turned away waits until the rejection plus the seconds the
\* message names ("told"), or plus the wait_time of _check_rate_limit ("exact")
WaitOut(how) ==
    /\ verdict.error = "rate"
    /\ waits < MaxWaits
    /\ waits' = waits + 1
    /\ LET until == verdict.at + (IF how = "told" THEN verdict.told * TicksPerSecond
                                  ELSE verdict.wait_time)
       IN  /\ until > clock
           /\ clock' = until
    /\ UNCHANGED <<USER_RATE_LIMITS, verdict, passes, validations>>
    /\ UNCHANGED <<pc, calls, chat_state, query_state, kb_state, store_state,
                   send_state, crawl_state>>

\* three quarters of a second, and a quarter short of the window
Delays == {3, Window - 1}

RateNext ==
    \/ \E user_id \in Users, text \in ClientMessages :
          ValidateInput(user_id, text)
    \/ \E d \in Delays : Advance(d)
    \/ \E how \in {"told", "exact"} : WaitOut(how)

(***************************************************************************)
(* app.py: send_zalo_message.                                              *)
(***************************************************************************)
\* a message of n characters: "bcd...zab..."
Text(n) == [i \in 1..n |-> 97 + (i % 26)]

\* the lengths around one, two and three chunks
Outgoing ==
    {Text(n) : n \in {0, 1, max_length, max_length + 1, 2 * max_length,
                      2 * max_length + 1}}

\* message[i:i+max_length]
Slice(s, i) ==
    SubSeq(s, i + 1, IF i + max_length < Len(s) THEN i + max_length ELSE Len(s))

\* lines 217-221: [message[i:i+max_length] for i in range(0, len(message),
\* max_length)] for a long message, [message] otherwise
ChunksOf(s) ==
    IF Len(s) > max_length
    THEN [k \in 1..((Len(s) + max_length - 1) \div max_length) |->
             Slice(s, (k - 1) * max_length)]
    ELSE <<s>>

\* f"[{i+1}/{len(chunks)}]\n"
Prefix(i, n) == <<91>> \o Digits(i + 1) \o <<47>> \o Digits(n) \o <<93, 10>>

\* lines 225-226: the text of chunk i (from 0), numbered when there are several
Labelled(cs, i) ==
    IF Len(cs) > 1 THEN Prefix(i, Len(cs)) \o cs[i + 1] ELSE cs[i + 1]

\* what requests.post and the API can do with one chunk, lines 233-249
PostOutcomes == {"ok", "ok_false", "http_error", "raises"}

SendIdle ==
    /\ sending = FALSE
    /\ original = <<>>
    /\ chunks = <<>>
    /\ chunk_i = 0
    /\ posted = <<>>

\* send_zalo_message(user_id, message) is entered; lines 216-221
SendCall(s) ==
    /\ ~sending
    /\ posted = <<>>
    /\ sending' = TRUE
    /\ original' = s
    /\ chunks' = ChunksOf(s)
    /\ chunk_i' = 0
    /\ UNCHANGED posted
    /\ UNCHANGED <<pc, calls, chat_state, query_state, kb_state, store_state,
                   rate_state, crawl_state>>

\* one turn of the loop of lines 224-249: the chunk is posted; whatever comes
\* of it is printed and the loop goes on
PostChunk(outcome) ==
    /\ sending
    /\ chunk_i < Len(chunks)
    /\ posted' = Append(posted, [text |-> Labelled(chunks, chunk_i),
                                 outcome |-> outcome])
    /\ chunk_i' = chunk_i + 1
    /\ UNCHANGED <<sending, original, chunks>>
    /\ UNCHANGED <<pc, calls, chat_state, query_state, kb_state, store_state,
                   rate_state, crawl_state>>

\* the loop is over and the function returns
SendReturn ==
    /\ sending
    /\ chunk_i = Len(chunks)
    /\ sending' = FALSE
    /\ UNCHANGED <<original, chunks, chunk_i, posted>>
    /\ UNCHANGED <<pc, calls, chat_state, query_state, kb_state, store_state,
                   rate_state, crawl_state>>

SendNext ==
    \/ \E s \in Outgoing : SendCall(s)
    \/ \E outcome \in PostOutcomes : PostChunk(outcome)
    \/ SendReturn

(***************************************************************************)
(* scripts/crawl_ueh_website.py: the loop of UEHCrawler.run. A URL is a    *)
(* number; the URLs is_valid_url accepts are those of site.                *)
(***************************************************************************)
\* START_URLS, lines 23-31: seven different URLs
START_URLS == [i \in 1..7 |-> i]

\* a link that is_valid_url refuses (another domain, an excluded pattern)
Foreign == 0

InSeq(s, x) == \E i \in 1..Len(s) : s[i] = x

\* the loop of lines 219-227 that also queues a URL already in to_visit
RECURSIVE Enqueue_NoQueueCheck(_, _, _)
Enqueue_NoQueueCheck(queue, links, visited) ==
    IF links = <<>> THEN queue
    ELSE LET absolute_url == Head(links) IN
         Enqueue_NoQueueCheck(
            IF absolute_url \notin visited /\ absolute_url \in site
            THEN Append(queue, absolute_url) ELSE queue,
            Tail(links), visited)

\* crawl_page, lines 219-227: every link of the page, in order, is appended
\* unless it is visited, is already in to_visit, or is not valid
RECURSIVE Enqueue(_, _, _)
Enqueue(queue, links, visited) ==
    IF links = <<>> THEN queue
    ELSE LET absolute_url == Head(links) IN
         Enqueue(
            IF /\ absolute_url \notin visited
               /\ ~InSeq(queue, absolute_url)
               /\ absolute_url \in site
            THEN Append(queue, absolute_url) ELSE queue,
            Tail(links), visited)

\* the links a page can carry: up to MaxLinks of itself, the two URLs after
\* it, one further on, the first start URL and a foreign one, repeats
\* included
LinksOn(url) ==
    UNION {[1..n -> {url, url + 1, url + 2, url + Len(START_URLS),
                     START_URLS[1], Foreign}] : n \in 0..MaxLinks}

\* __init__, lines 71-75, on a site with MaxNewUrls pages besides the start
\* URLs
CrawlFresh ==
    /\ site = 1..(Len(START_URLS) + MaxNewUrls)
    /\ visited_urls = {}
    /\ to_visit = START_URLS
    /\ pages_crawled = 0
    /\ fetched = <<>>
    /\ crawl_pc = "running"

\* run two pages short of MAX_PAGES on a site with more pages than that:
\* the pages so far were crawled in order and to_visit holds the next ones
CrawlNearLimit ==
    /\ site = 1..(MAX_PAGES + MaxNewUrls)
    /\ visited_urls = 1..(MAX_PAGES - 2)
    /\ to_visit \in {<<MAX_PAGES - 1>>, <<MAX_PAGES - 1, MAX_PAGES>>}
    /\ pages_crawled = MAX_PAGES - 2
    /\ fetched = [i \in 1..(MAX_PAGES - 2) |-> i]
    /\ crawl_pc = "running"

\* one turn of the loop of run, lines 291-304, with crawl_page
CrawlTurn(links) ==
    /\ crawl_pc = "running"
    /\ to_visit # <<>>
    /\ pages_crawled < MAX_PAGES
    /\ LET url == Head(to_visit) IN
       IF url \in visited_urls
       THEN /\ to_visit' = Tail(to_visit)
            /\ UNCHANGED <<visited_urls, pages_crawled, fetched>>
       ELSE /\ visited_urls' = visited_urls \cup {url}
            /\ fetched' = Append(fetched, url)
            /\ to_visit' = Enqueue(Tail(to_visit), links, visited_urls \cup {url})
            /\ pages_crawled' = pages_crawled + 1
    /\ UNCHANGED <<site, crawl_pc>>
    /\ UNCHANGED <<pc, calls, chat_state, query_state, kb_state, store_state,
                   rate_state, send_state>>

\* the loop condition of line 291 fails
CrawlEnd ==
    /\ crawl_pc = "running"
    /\ to_visit = <<>> \/ pages_crawled >= MAX_PAGES
    /\ crawl_pc' = "done"
    /\ UNCHANGED <<site, visited_urls, to_visit, pages_crawled, fetched>>
    /\ UNCHANGED <<pc, calls, chat_state, query_state, kb_state, store_state,
                   rate_state, send_state>>

CrawlNext ==
    \/ \E links \in IF to_visit = <<>> THEN {} ELSE LinksOn(Head(to_visit)) :
          CrawlTurn(links)
    \/ CrawlEnd

\* every handler idle, nothing cached, an empty knowledge base
Quiet ==
    /\ pc = [p \in Threads |-> "idle"]
    /\ calls = 0
    /\ ChatIdle({0})
    /\ QueryIdle({TRUE}, {FALSE})
    /\ KbQuiet

Init ==
    /\ pc = [p \in Threads |-> "idle"]
    /\ calls = 0
    /\ ChatIdle(PriorQuestions)
    /\ QueryIdle(BOOLEAN, BOOLEAN)
    /\ KbIdle(Collections, BOOLEAN, Providers, {"up", "down"}, {"ok", "raises"})
    /\ StoreIdle
    /\ RateIdle
    /\ SendIdle
    /\ CrawlFresh

\* chat(message) is entered; lines 313-314: the key, and
\* if cache_key in RESPONSE_CACHE
ChatCall(p, m) ==
    /\ pc[p] = "idle"
    /\ calls < MaxCalls
    /\ calls' = calls + 1
    /\ pc' = [pc EXCEPT ![p] =
                IF ResponseKey(m) \in DOMAIN RESPONSE_CACHE THEN "chat_hit" ELSE "chat_agent"]
    /\ message' = [message EXCEPT ![p] = m]
    /\ cache_key' = [cache_key EXCEPT ![p] = ResponseKey(m)]
    /\ result_text' = [result_text EXCEPT ![p] = NoValue]
    /\ ret' = [ret EXCEPT ![p] = NoValue]
    /\ agent_calls' = [agent_calls EXCEPT ![p] = 0]
    /\ cache_writes' = [cache_writes EXCEPT ![p] = 0]
    /\ full_at_call' = [full_at_call EXCEPT ![p] =
                          Size(RESPONSE_CACHE) >= RESPONSE_CACHE_MAX_SIZE]
    /\ UNCHANGED RESPONSE_CACHE
    /\ UNCHANGED <<query_state, kb_state, ext_state>>

\* a hit that stores the entry again before returning it
ChatHit_Restore(p) ==
    /\ pc[p] = "chat_hit"
    /\ cache_key[p] \in DOMAIN RESPONSE_CACHE
    /\ ret' = [ret EXCEPT ![p] = RESPONSE_CACHE[cache_key[p]]]
    /\ RESPONSE_CACHE' = Put(RESPONSE_CACHE, cache_key[p], RESPONSE_CACHE[cache_key[p]])
    /\ cache_writes' = [cache_writes EXCEPT ![p] = @ + 1]
    /\ pc' = [pc EXCEPT ![p] = "chat_done_hit"]
    /\ UNCHANGED <<message, cache_key, result_text, agent_calls, full_at_call>>
    /\ UNCHANGED <<calls, query_state, kb_state, ext_state>>

\* line 316: return RESPONSE_CACHE[cache_key]  (a KeyError would land in except)
ChatHit(p) ==
    /\ pc[p] = "chat_hit"
    /\ ret' = [ret EXCEPT ![p] =
                IF cache_key[p] \in DOMAIN RESPONSE_CACHE
                THEN RESPONSE_CACHE[cache_key[p]]
                ELSE ChatError]
    /\ pc' = [pc EXCEPT ![p] = "chat_done_hit"]
    /\ UNCHANGED <<RESPONSE_CACHE, message, cache_key, result_text,
                   agent_calls, cache_writes, full_at_call>>
    /\ UNCHANGED <<calls, query_state, kb_state, ext_state>>

\* lines 319-332: the agent answers and the text is extracted
ChatAgentOk(p) ==
    /\ pc[p] = "chat_agent"
    /\ \E r \in AgentResults :
          result_text' = [result_text EXCEPT ![p] = ExtractText(r)]
    /\ agent_calls' = [agent_calls EXCEPT ![p] = @ + 1]
    /\ pc' = [pc EXCEPT ![p] = "chat_size_check"]
    /\ UNCHANGED <<RESPONSE_CACHE, message, cache_key, ret,
                   cache_writes, full_at_call>>
    /\ UNCHANGED <<calls, query_state, kb_state, ext_state>>

\* an except branch that caches the error text it returns
ChatAgentRaise_Cached(p) ==
    /\ pc[p] = "chat_agent"
    /\ agent_calls' = [agent_calls EXCEPT ![p] = @ + 1]
    /\ ret' = [ret EXCEPT ![p] = ChatError]
    /\ RESPONSE_CACHE' = Put(RESPONSE_CACHE, cache_key[p], ChatError)
    /\ cache_writes' = [cache_writes EXCEPT ![p] = @ + 1]
    /\ pc' = [pc EXCEPT ![p] = "chat_done_error"]
    /\ UNCHANGED <<message, cache_key, result_text, full_at_call>>
    /\ UNCHANGED <<calls, query_state, kb_state, ext_state>>

\* lines 319, 340-342: the agent raises; chat returns the error text
ChatAgentRaise(p) ==
    /\ pc[p] = "chat_agent"
    /\ agent_calls' = [agent_calls EXCEPT ![p] = @ + 1]
    /\ ret' = [ret EXCEPT ![p] = ChatError]
    /\ pc' = [pc EXCEPT ![p] = "chat_done_error"]
    /\ UNCHANGED <<RESPONSE_CACHE, message, cache_key, result_text,
                   cache_writes, full_at_call>>
    /\ UNCHANGED <<calls, query_state, kb_state, ext_state>>

\* line 335: if len(RESPONSE_CACHE) < RESPONSE_CACHE_MAX_SIZE; else line 339
ChatSizeCheck(p) ==
    /\ pc[p] = "chat_size_check"
    /\ IF HasRoom(RESPONSE_CACHE)
       THEN /\ pc' = [pc EXCEPT ![p] = "chat_store"]
            /\ UNCHANGED ret
       ELSE /\ pc' = [pc EXCEPT ![p] = "chat_done_miss"]
            /\ ret' = [ret EXCEPT ![p] = result_text[p]]
    /\ UNCHANGED <<RESPONSE_CACHE, message, cache_key, result_text,
                   agent_calls, cache_writes, full_at_call>>
    /\ UNCHANGED <<calls, query_state, kb_state, ext_state>>

\* lines 336-339: RESPONSE_CACHE[cache_key] = result_text; return result_text
ChatStore(p) ==
    /\ pc[p] = "chat_store"
    /\ RESPONSE_CACHE' = Put(RESPONSE_CACHE, cache_key[p], result_text[p])
    /\ cache_writes' = [cache_writes EXCEPT ![p] = @ + 1]
    /\ ret' = [ret EXCEPT ![p] = result_text[p]]
    /\ pc' = [pc EXCEPT ![p] = "chat_done_miss"]
    /\ UNCHANGED <<message, cache_key, result_text, agent_calls, full_at_call>>
    /\ UNCHANGED <<calls, query_state, kb_state, ext_state>>

ChatDone(p) == pc[p] \in {"chat_done_hit", "chat_done_miss", "chat_done_error"}

\* the caller has the value; the thread takes the next request
ChatFinish(p) ==
    /\ ChatDone(p)
    /\ pc' = [pc EXCEPT ![p] = "idle"]
    /\ message' = [message EXCEPT ![p] = <<>>]
    /\ cache_key' = [cache_key EXCEPT ![p] = <<>>]
    /\ result_text' = [result_text EXCEPT ![p] = NoValue]
    /\ ret' = [ret EXCEPT ![p] = NoValue]
    /\ agent_calls' = [agent_calls EXCEPT ![p] = 0]
    /\ cache_writes' = [cache_writes EXCEPT ![p] = 0]
    /\ full_at_call' = [full_at_call EXCEPT ![p] = FALSE]
    /\ UNCHANGED <<RESPONSE_CACHE>>
    /\ UNCHANGED <<calls, query_state, kb_state, ext_state>>

ChatNext ==
    \E p \in Threads :
        \/ \E m \in Messages : ChatCall(p, m)
        \/ ChatHit(p)
        \/ ChatAgentOk(p)
        \/ ChatAgentRaise(p)
        \/ ChatSizeCheck(p)
        \/ ChatStore(p)
        \/ ChatFinish(p)

(***************************************************************************)
(* search_uit_knowledge                                                    *)
(***************************************************************************)
QDone(p) ==
    pc[p] \in {"q_done_unavailable", "q_done_hit", "q_done_not_found",
               "q_done_error", "q_done_miss"}

\* The call is entered.  line 59: no knowledge base; lines 63-64: the key,
\* and if cache_key in QUERY_CACHE
QCall(p, q) ==
    /\ pc[p] = "idle"
    /\ calls < MaxCalls
    /\ calls' = calls + 1
    /\ query' = [query EXCEPT ![p] = q]
    /\ finished_before' = [finished_before EXCEPT ![p] = {t \in Threads : QDone(t)}]
    /\ IF ~uit_kb
       THEN /\ pc' = [pc EXCEPT ![p] = "q_done_unavailable"]
            /\ qret' = [qret EXCEPT ![p] = KbUnavailable]
            /\ UNCHANGED qkey
       ELSE /\ pc' = [pc EXCEPT ![p] =
                        IF QueryKey(q) \in DOMAIN QUERY_CACHE THEN "q_read" ELSE "q_search"]
            /\ qkey' = [qkey EXCEPT ![p] = QueryKey(q)]
            /\ UNCHANGED qret
    /\ UNCHANGED <<QUERY_CACHE, uit_kb, now, cached_data, response, searches,
                   qwrites, stored, written>>
    /\ UNCHANGED <<chat_state, kb_state, ext_state>>

\* line 65: cached_data = QUERY_CACHE[cache_key]; outside the try block, so a
\* KeyError leaves the function
QRead(p) ==
    /\ pc[p] = "q_read"
    /\ IF qkey[p] \in DOMAIN QUERY_CACHE
       THEN /\ cached_data' = [cached_data EXCEPT ![p] = QUERY_CACHE[qkey[p]]]
            /\ pc' = [pc EXCEPT ![p] = "q_expiry"]
       ELSE /\ pc' = [pc EXCEPT ![p] = "q_raised"]
            /\ UNCHANGED cached_data
    /\ UNCHANGED <<QUERY_CACHE, uit_kb, now, query, qkey, response, qret,
                   searches, qwrites, stored, written, finished_before>>
    /\ UNCHANGED <<calls, chat_state, kb_state, ext_state>>

\* an expiry test that deletes the entry it finds expired
QExpiry_Purge(p) ==
    /\ pc[p] = "q_expiry"
    /\ IF Fresh(now, cached_data[p].timestamp)
       THEN /\ qret' = [qret EXCEPT ![p] = cached_data[p].result]
            /\ pc' = [pc EXCEPT ![p] = "q_done_hit"]
            /\ UNCHANGED QUERY_CACHE
       ELSE /\ pc' = [pc EXCEPT ![p] = "q_search"]
            /\ QUERY_CACHE' = [k \in (DOMAIN QUERY_CACHE) \ {qkey[p]} |-> QUERY_CACHE[k]]
            /\ UNCHANGED qret
    /\ UNCHANGED <<uit_kb, now, query, qkey, cached_data, response,
                   searches, qwrites, stored, written, finished_before>>
    /\ UNCHANGED <<calls, chat_state, kb_state, ext_state>>

\* an expiry test that never serves the entry
QExpiry_NeverServe(p) ==
    /\ pc[p] = "q_expiry"
    /\ pc' = [pc EXCEPT ![p] = "q_search"]
    /\ UNCHANGED <<QUERY_CACHE, uit_kb, now, query, qkey, cached_data, response, qret,
                   searches, qwrites, stored, written, finished_before>>
    /\ UNCHANGED <<calls, chat_state, kb_state, ext_state>>

\* lines 66-68: the age test; a fresh entry's result is returned
QExpiry(p) ==
    /\ pc[p] = "q_expiry"
    /\ IF Fresh(now, cached_data[p].timestamp)
       THEN /\ qret' = [qret EXCEPT ![p] = cached_data[p].result]
            /\ pc' = [pc EXCEPT ![p] = "q_done_hit"]
       ELSE /\ pc' = [pc EXCEPT ![p] = "q_search"]
            /\ UNCHANGED qret
    /\ UNCHANGED <<QUERY_CACHE, uit_kb, now, query, qkey, cached_data, response,
                   searches, qwrites, stored, written, finished_before>>
    /\ UNCHANGED <<calls, chat_state, kb_state, ext_state>>

\* lines 74-90: full_text_search, the not-found return, the formatting and
\* the except branch
QSearch(p) ==
    /\ pc[p] = "q_search"
    /\ searches' = [searches EXCEPT ![p] = @ + 1]
    /\ \E results \in SearchOutcomes :
          IF results = <<>>
          THEN /\ qret' = [qret EXCEPT ![p] = NotFound(query[p])]
               /\ pc' = [pc EXCEPT ![p] = "q_done_not_found"]
               /\ UNCHANGED response
          ELSE IF ~Formattable(results)
          THEN /\ qret' = [qret EXCEPT ![p] = SearchError]
               /\ pc' = [pc EXCEPT ![p] = "q_done_error"]
               /\ UNCHANGED response
          ELSE /\ response' = [response EXCEPT ![p] = FormatResults(results)]
               /\ pc' = [pc EXCEPT ![p] = "q_store"]
               /\ UNCHANGED qret
    /\ UNCHANGED <<QUERY_CACHE, uit_kb, now, query, qkey, cached_data,
                   qwrites, stored, written, finished_before>>
    /\ UNCHANGED <<calls, chat_state, kb_state, ext_state>>

\* a store that updates the result of an existing entry in place and leaves
\* its timestamp
QStore_InPlace(p) ==
    /\ pc[p] = "q_store"
    /\ QUERY_CACHE' =
          Put(QUERY_CACHE, qkey[p],
              IF qkey[p] \in DOMAIN QUERY_CACHE
              THEN Entry(response[p], QUERY_CACHE[qkey[p]].timestamp)
              ELSE Entry(response[p], now))
    /\ stored' = [stored EXCEPT ![p] = Entry(response[p], now)]
    /\ written' = written \cup
                    {[key |-> qkey[p], query |-> query[p], entry |-> Entry(response[p], now)]}
    /\ qwrites' = [qwrites EXCEPT ![p] = @ + 1]
    /\ qret' = [qret EXCEPT ![p] = response[p]]
    /\ pc' = [pc EXCEPT ![p] = "q_done_miss"]
    /\ UNCHANGED <<uit_kb, now, query, qkey, cached_data, response,
                   searches, finished_before>>
    /\ UNCHANGED <<calls, chat_state, kb_state, ext_state>>

\* lines 93-99: the entry is built and stored, the response returned
QStore(p) ==
    /\ pc[p] = "q_store"
    /\ QUERY_CACHE' = Put(QUERY_CACHE, qkey[p], Entry(response[p], now))
    /\ stored' = [stored EXCEPT ![p] = Entry(response[p], now)]
    /\ written' = written \cup
                    {[key |-> qkey[p], query |-> query[p], entry |-> Entry(response[p], now)]}
    /\ qwrites' = [qwrites EXCEPT ![p] = @ + 1]
    /\ qret' = [qret EXCEPT ![p] = response[p]]
    /\ pc' = [pc EXCEPT ![p] = "q_done_miss"]
    /\ UNCHANGED <<uit_kb, now, query, qkey, cached_data, response,
                   searches, finished_before>>
    /\ UNCHANGED <<calls, chat_state, kb_state, ext_state>>

\* the caller has the value; the thread takes the next request
QFinish(p) ==
    /\ QDone(p)
    /\ pc' = [pc EXCEPT ![p] = "idle"]
    /\ finished_before' = [t \in Threads |->
                             IF t = p THEN {} ELSE finished_before[t] \ {p}]
    /\ query' = [query EXCEPT ![p] = <<>>]
    /\ qkey' = [qkey EXCEPT ![p] = <<>>]
    /\ cached_data' = [cached_data EXCEPT ![p] = NoEntry]
    /\ response' = [response EXCEPT ![p] = NoPayload]
    /\ qret' = [qret EXCEPT ![p] = NoPayload]
    /\ searches' = [searches EXCEPT ![p] = 0]
    /\ qwrites' = [qwrites EXCEPT ![p] = 0]
    /\ stored' = [stored EXCEPT ![p] = NoEntry]
    /\ UNCHANGED <<QUERY_CACHE, uit_kb, now, written>>
    /\ UNCHANGED <<calls, chat_state, kb_state, ext_state>>

\* datetime.now() moves on
Tick ==
    /\ \E t \in Instants : t > now /\ now' = t
    /\ UNCHANGED <<pc, QUERY_CACHE, uit_kb, query, qkey, cached_data, response, qret,
                   searches, qwrites, stored, written,
                   finished_before>>
    /\ UNCHANGED <<calls, chat_state, kb_state, ext_state>>

QueryNext ==
    \/ \E p \in Threads :
          \/ \E q \in Queries : QCall(p, q)
          \/ QRead(p)
          \/ QExpiry(p)
          \/ QSearch(p)
          \/ QStore(p)
          \/ QFinish(p)
    \/ Tick

Next ==
    ChatNext \/ QueryNext \/ KbLiveNext \/ StoreNext \/ RateNext \/ SendNext \/ CrawlNext

Spec == Init /\ [][Next]_vars

\* chat alone, on a cache that has answered nothing, is one short of full, or
\* is full
InitChat ==
    /\ pc = [p \in Threads |-> "idle"]
    /\ calls = 0
    /\ ChatIdle(PriorQuestions)
    /\ QueryIdle({TRUE}, {FALSE})
    /\ KbQuiet
    /\ StoreIdle
    /\ RateIdle
    /\ SendIdle
    /\ CrawlFresh

SpecChat == InitChat /\ [][ChatNext]_vars

\* search_uit_knowledge alone
InitQuery ==
    /\ pc = [p \in Threads |-> "idle"]
    /\ calls = 0
    /\ ChatIdle({0})
    /\ QueryIdle(BOOLEAN, BOOLEAN)
    /\ KbQuiet
    /\ StoreIdle
    /\ RateIdle
    /\ SendIdle
    /\ CrawlFresh

SpecQuery == InitQuery /\ [][QueryNext]_vars

\* both handlers, each on one input
BothNext ==
    \/ \E p \in Threads :
          \/ ChatCall(p, <<65>>)
          \/ ChatHit(p)
          \/ ChatAgentOk(p)
          \/ ChatAgentRaise(p)
          \/ ChatSizeCheck(p)
          \/ ChatStore(p)
          \/ ChatFinish(p)
          \/ QCall(p, <<65>>)
          \/ QRead(p)
          \/ QExpiry(p)
          \/ QSearch(p)
          \/ QStore(p)
          \/ QFinish(p)
    \/ Tick

InitBoth ==
    /\ pc = [p \in Threads |-> "idle"]
    /\ calls = 0
    /\ ChatIdle({0})
    /\ QueryIdle({TRUE}, BOOLEAN)
    /\ KbQuiet
    /\ StoreIdle
    /\ RateIdle
    /\ SendIdle
    /\ CrawlFresh

SpecBoth == InitBoth /\ [][BothNext]_vars

\* the knowledge base alone: one store, searched again and again
InitKb ==
    /\ pc = [p \in Threads |-> "idle"]
    /\ calls = 0
    /\ ChatIdle({0})
    /\ QueryIdle({TRUE}, {FALSE})
    /\ KbIdle(Collections, BOOLEAN, Providers, {"up", "down"}, {"ok", "raises"})
    /\ StoreIdle
    /\ RateIdle
    /\ SendIdle
    /\ CrawlFresh

SpecKb == InitKb /\ [][KbNext]_vars

\* the knowledge base with a provider that may also never answer: the
\* client's timer runs out on a pending request, and a call whose work is done
\* returns
InitKbLive ==
    /\ pc = [p \in Threads |-> "idle"]
    /\ calls = 0
    /\ ChatIdle({0})
    /\ QueryIdle({TRUE}, {FALSE})
    /\ KbIdle(Collections, BOOLEAN, Providers \cup {SilentProvider},
              {"up", "down"}, {"ok"})
    /\ StoreIdle
    /\ RateIdle
    /\ SendIdle
    /\ CrawlFresh

SpecKbLive ==
    InitKbLive /\ [][KbLiveNext]_vars /\ WF_vars(KbReturn) /\ WF_vars(InvokeTimeout)

\* the document store alone, from an empty collection
InitStore == Quiet /\ StoreIdle /\ RateIdle /\ SendIdle /\ CrawlFresh

SpecStore == InitStore /\ [][StoreNext]_vars

\* validate_input alone, for two users
InitRate == Quiet /\ StoreIdle /\ RateIdle /\ SendIdle /\ CrawlFresh

SpecRate == InitRate /\ [][RateNext]_vars

\* send_zalo_message alone, one call
InitSend == Quiet /\ StoreIdle /\ RateIdle /\ SendIdle /\ CrawlFresh

SpecSend == InitSend /\ [][SendNext]_vars

\* the crawler alone, from its start and from two pages short of MAX_PAGES;
\* the loop of run goes on while it can
InitCrawl ==
    /\ Quiet /\ StoreIdle /\ RateIdle /\ SendIdle
    /\ CrawlFresh \/ CrawlNearLimit

SpecCrawl == InitCrawl /\ [][CrawlNext]_vars /\ WF_vars(CrawlNext)

(***************************************************************************)
(* The response cache (GoogleSearchAgent.chat)                             *)
(***************************************************************************)
\* p takes a step
Moves(p) == pc'[p] # pc[p]

\* C1: with chat calls running concurrently, RESPONSE_CACHE never holds more
\* than RESPONSE_CACHE_MAX_SIZE entries.
C1_SizeNeverExceedsMax == Size(RESPONSE_CACHE) <= RESPONSE_CACHE_MAX_SIZE

\* C2: a chat call that begins on a full RESPONSE_CACHE and misses invokes the
\* agent, returns the agent's answer and stores nothing: it never reaches the
\* store, and it ends with one agent call, no write and the extracted text as
\* its return value.
C2_FullCacheNotWritten ==
    \A p \in Threads :
        full_at_call[p] =>
            /\ pc[p] # "chat_store"
            /\ cache_writes[p] = 0
            /\ pc[p] = "chat_done_miss" =>
                  /\ agent_calls[p] = 1
                  /\ ret[p] = result_text[p]
                  /\ result_text[p] # NoValue

C2_Witness ==
    \E p \in Threads :
        /\ pc[p] = "chat_done_miss"
        /\ full_at_call[p]
        /\ Size(RESPONSE_CACHE) = RESPONSE_CACHE_MAX_SIZE
        /\ cache_key[p] \notin DOMAIN RESPONSE_CACHE
        /\ agent_calls[p] = 1
        /\ ret[p] = Str("x")

\* C3: once RESPONSE_CACHE holds a value for a key, no later step removes or
\* overwrites that entry (so every later hit on the key returns that value).
C3_EntriesNeverChange ==
    [][\A k \in DOMAIN RESPONSE_CACHE :
          /\ k \in DOMAIN RESPONSE_CACHE'
          /\ RESPONSE_CACHE'[k] = RESPONSE_CACHE[k]]_vars

\* C4: a chat call checks the cache first; a hit returns the cached value
\* with no agent call and no write; a miss invokes the agent exactly once and
\* writes at most once before it returns; every change of RESPONSE_CACHE is a
\* write counted for the call that made it.
C4_ChatStateMachine ==
    [][/\ \A p \in Threads :
            /\ (pc[p] = "idle" /\ Moves(p)) =>
                  /\ pc'[p] \in {"chat_hit", "chat_agent"}
                  /\ pc'[p] = "chat_hit" <=> cache_key'[p] \in DOMAIN RESPONSE_CACHE
                  /\ agent_calls'[p] = 0
                  /\ cache_writes'[p] = 0
            /\ (pc'[p] = "chat_done_hit" /\ Moves(p)) =>
                  /\ pc[p] = "chat_hit"
                  /\ ret'[p] = RESPONSE_CACHE[cache_key[p]]
                  /\ agent_calls'[p] = 0
                  /\ cache_writes'[p] = 0
            /\ (pc'[p] = "chat_done_miss" /\ Moves(p)) =>
                  /\ agent_calls'[p] = 1
                  /\ cache_writes'[p] <= 1
                  /\ ret'[p] = result_text[p]
            /\ (pc'[p] = "chat_done_error" /\ Moves(p)) =>
                  /\ agent_calls'[p] = 1
                  /\ cache_writes'[p] = 0
            /\ (ChatDone(p) /\ Moves(p)) => pc'[p] = "idle"
       /\ RESPONSE_CACHE' # RESPONSE_CACHE =>
            \E p \in Threads : cache_writes'[p] = cache_writes[p] + 1]_vars

C4_Witness ==
    \E p, q \in Threads :
        /\ pc[p] = "chat_done_hit"
        /\ ret[p] = Str("y")
        /\ agent_calls[p] = 0
        /\ pc[q] = "chat_done_miss"
        /\ cache_writes[q] = 1
        /\ agent_calls[q] = 1

(***************************************************************************)
(* The query cache (search_uit_knowledge)                                  *)
(***************************************************************************)
\* the call of p has computed its key
Keyed(p) == pc[p] \in {"q_read", "q_expiry", "q_search", "q_store", "q_done_hit",
                       "q_done_not_found", "q_done_error", "q_done_miss"}

\* the entry the finished call of q stored or served
EntryOf(q) ==
    CASE pc[q] = "q_done_miss" -> stored[q]
      [] pc[q] = "q_done_hit" -> cached_data[q]
      [] OTHER -> NoEntry

\* C5: an entry is served only when its age at the test is below CACHE_TTL;
\* at an age of CACHE_TTL or more the call goes on to full_text_search.
C5_ServedOnlyWhileFresh ==
    [][\A p \in Threads :
          /\ (pc[p] = "q_expiry" /\ Moves(p)) =>
                IF now - cached_data[p].timestamp < CACHE_TTL
                THEN /\ pc'[p] = "q_done_hit"
                     /\ qret'[p] = cached_data[p].result
                     /\ searches'[p] = 0
                ELSE pc'[p] = "q_search"
          /\ (pc'[p] = "q_done_hit" /\ Moves(p)) => pc[p] = "q_expiry"
          /\ (pc[p] = "q_search" /\ Moves(p)) => searches'[p] = searches[p] + 1]_vars

\* an entry exactly CACHE_TTL old was read and the call is about to search
C5_Witness ==
    \E p \in Threads :
        /\ pc[p] = "q_search"
        /\ cached_data[p] # NoEntry
        /\ now - cached_data[p].timestamp = CACHE_TTL

\* C6 as stated: of two calls with the same normalized query made less than
\* CACHE_TTL apart (any two calls made while the clock reads less than
\* CACHE_TTL are), the second, begun after the first returned, returns the
\* same payload and neither searches nor writes.
C6_SecondCallServed ==
    \A p, q \in Threads :
        (/\ p # q
         /\ q \in finished_before[p]
         /\ QDone(p) /\ QDone(q)
         /\ qkey[p] = qkey[q]
         /\ now < CACHE_TTL)
        => /\ qret[p] = qret[q]
           /\ searches[p] = 0
           /\ qwrites[p] = 0

\* C6 amended: when the first call stored or served an entry, the second call
\* read that same entry, and the entry is still less than CACHE_TTL old when
\* the second call has returned, the second call is a hit: same payload, no
\* search, no write.
C6_SecondCallServedFromEntry ==
    \A p, q \in Threads :
        (/\ p # q
         /\ q \in finished_before[p]
         /\ QDone(p) /\ QDone(q)
         /\ qkey[p] = qkey[q]
         /\ EntryOf(q) # NoEntry
         /\ cached_data[p] = EntryOf(q)
         /\ now - cached_data[p].timestamp < CACHE_TTL)
        => /\ pc[p] = "q_done_hit"
           /\ qret[p] = qret[q]
           /\ searches[p] = 0
           /\ qwrites[p] = 0

C6_Witness ==
    \E p, q \in Threads :
        /\ p # q
        /\ q \in finished_before[p]
        /\ pc[q] = "q_done_miss"
        /\ pc[p] = "q_done_hit"
        /\ qkey[p] = qkey[q]
        /\ cached_data[p] = stored[q]
        /\ now - cached_data[p].timestamp < CACHE_TTL
        /\ qret[p] = qret[q]

\* C7 as stated: queries that differ only in letter case or in leading or
\* trailing whitespace get the same QUERY_CACHE key.
C7_CaseAndWhitespaceSameKey ==
    \A p, q \in Threads :
        (Keyed(p) /\ Keyed(q) /\ Strip(Lower(query[p])) = Strip(Lower(query[q])))
        => qkey[p] = qkey[q]

\* C7 amended: queries get the same QUERY_CACHE key exactly when they differ
\* in letter case only, and a call that reads a still fresh entry created
\* under a query that differs from its own in case only is served that
\* entry's result.
C7_CaseOnlySameKey ==
    /\ \A p, q \in Threads :
          (Keyed(p) /\ Keyed(q)) =>
              (Lower(query[p]) = Lower(query[q]) <=> qkey[p] = qkey[q])
    /\ \A p \in Threads : \A w \in written :
          (Keyed(p) /\ Lower(w.query) = Lower(query[p])) => w.key = qkey[p]
    /\ \A p \in Threads : \A w \in written :
          (/\ QDone(p)
           /\ Lower(w.query) = Lower(query[p])
           /\ cached_data[p] = w.entry
           /\ now - w.entry.timestamp < CACHE_TTL)
          => /\ pc[p] = "q_done_hit"
             /\ qret[p] = w.entry.result

\* a hit on the entry created under a query in the other case
C7_Witness ==
    \E p \in Threads : \E w \in written :
        /\ pc[p] = "q_done_hit"
        /\ cached_data[p] = w.entry
        /\ w.query # query[p]
        /\ Lower(w.query) = Lower(query[p])
        /\ qret[p] = w.entry.result

\* C8: when the compute step raises, the call returns the error text, the
\* cache is left as it was, and the compute step has run once; from there the
\* call only returns.
C8_FailureNotCachedNotRetried ==
    [][\A p \in Threads :
          /\ (pc'[p] = "chat_done_error" /\ Moves(p)) =>
                /\ pc[p] = "chat_agent"
                /\ ret'[p] = ChatError
                /\ agent_calls'[p] = 1
                /\ RESPONSE_CACHE' = RESPONSE_CACHE
          /\ (pc'[p] = "q_done_error" /\ Moves(p)) =>
                /\ pc[p] = "q_search"
                /\ qret'[p] = SearchError
                /\ searches'[p] = 1
                /\ QUERY_CACHE' = QUERY_CACHE
          /\ (pc[p] \in {"chat_done_error", "q_done_error"} /\ Moves(p)) =>
                /\ pc'[p] = "idle"
                /\ RESPONSE_CACHE' = RESPONSE_CACHE
                /\ QUERY_CACHE' = QUERY_CACHE]_vars

\* a failed chat and a failed search, neither key cached
C8_Witness ==
    \E p, q \in Threads :
        /\ pc[p] = "chat_done_error"
        /\ ret[p] = ChatError
        /\ cache_key[p] \notin DOMAIN RESPONSE_CACHE
        /\ pc[q] = "q_done_error"
        /\ qret[q] = SearchError
        /\ qkey[q] \notin DOMAIN QUERY_CACHE

\* C9: a call that found its key in QUERY_CACHE never fails on the read, and
\* the entry it holds (and every entry in the cache) is one that a single
\* call stored whole, result and timestamp together; a hit returns that
\* entry's result.
C9_EntriesReadWhole ==
    /\ \A p \in Threads : pc[p] # "q_raised"
    /\ \A p \in Threads :
          pc[p] \in {"q_expiry", "q_done_hit"} =>
              \E w \in written : w.key = qkey[p] /\ w.entry = cached_data[p]
    /\ \A p \in Threads : pc[p] = "q_done_hit" => qret[p] = cached_data[p].result
    /\ \A k \in DOMAIN QUERY_CACHE :
          \E w \in written : w.key = k /\ w.entry = QUERY_CACHE[k]

\* a reader holds the entry it read while another call has replaced it
C9_Witness ==
    \E p \in Threads :
        /\ pc[p] \in {"q_expiry", "q_done_hit"}
        /\ QUERY_CACHE[qkey[p]] # cached_data[p]
        /\ QUERY_CACHE[qkey[p]].result # cached_data[p].result
        /\ Cardinality({w \in written : w.key = qkey[p]}) >= 2

\* C10: no step removes a key from QUERY_CACHE, and an entry changes only
\* when a call that searched stores its result under that key.
C10_QueryCacheNeverShrinks ==
    [][/\ DOMAIN QUERY_CACHE \subseteq DOMAIN QUERY_CACHE'
       /\ Size(QUERY_CACHE') >= Size(QUERY_CACHE)
       /\ \A k \in DOMAIN QUERY_CACHE :
            QUERY_CACHE'[k] # QUERY_CACHE[k] =>
                \E p \in Threads :
                    /\ pc[p] = "q_store" /\ pc'[p] = "q_done_miss"
                    /\ qkey[p] = k
                    /\ searches[p] = 1
                    /\ QUERY_CACHE'[k] = Entry(response[p], now)]_vars

\* a call found its entry expired, and the entry is still stored
C10_Witness ==
    \E p \in Threads :
        /\ pc[p] = "q_search"
        /\ cached_data[p] # NoEntry
        /\ now - cached_data[p].timestamp >= CACHE_TTL
        /\ qkey[p] \in DOMAIN QUERY_CACHE
        /\ QUERY_CACHE[qkey[p]] = cached_data[p]

(***************************************************************************)
(* The knowledge base searches (UEHMongoKnowledgeBase)                     *)
(***************************************************************************)
\* the stored document a returned document came from
Stored(doc) == CHOOSE d \in collection : d.content_id = doc.content_id

\* C11: whatever the provider does and whatever enable_vector_search is, no
\* document returned by vector_search is one stored without an embedding.
C11_NoDocWithoutEmbedding ==
    kb_call.op = "vector_search" =>
        \A i \in 1..Len(kb_out.docs) : Stored(kb_out.docs[i]).has_embedding

\* the provider answers the query with an embedding
QueryEmbedded ==
    enable_vector_search /\ bedrock.kind = "ok" /\ bedrock.embedding # <<>>

\* the documents vector search is to choose from: a non-empty stored
\* embedding whose similarity to the query embedding reaches the threshold
Eligible(threshold) ==
    {d \in collection :
        /\ d.has_embedding /\ d.embedding # <<>>
        /\ FracLeq(threshold, cosine_similarity(bedrock.embedding, d.embedding))}

\* docs is the first limit of the eligible documents by descending similarity
TopBySimilarity(docs, limit, threshold) ==
    LET Sim(doc) == cosine_similarity(bedrock.embedding, Stored(doc).embedding) IN
    /\ Len(docs) = IF limit < Cardinality(Eligible(threshold))
                   THEN limit ELSE Cardinality(Eligible(threshold))
    /\ \A i \in 1..Len(docs) :
          /\ \E d \in Eligible(threshold) : d.content_id = docs[i].content_id
          /\ docs[i].similarity_score = Sim(docs[i])
          /\ Norm(Stored(docs[i]).embedding) = 0 =>
                 FracEq(docs[i].similarity_score, Frac(0, 1))
    /\ \A i, j \in 1..Len(docs) :
          /\ i < j => FracLeq(Sim(docs[j]), Sim(docs[i]))
          /\ i # j => docs[i].content_id # docs[j].content_id
    /\ \A d \in Eligible(threshold) :
          (\A i \in 1..Len(docs) : docs[i].content_id # d.content_id) =>
              \A i \in 1..Len(docs) :
                  FracLeq(cosine_similarity(bedrock.embedding, d.embedding), Sim(docs[i]))

\* C12: when the query embedding is generated, vector_search returns the
\* first limit documents, by non-increasing cosine similarity, of those with
\* a non-empty stored embedding and similarity >= threshold; a zero-norm
\* embedding counts with similarity 0.
C12_TopByCosine ==
    (kb_call.op = "vector_search" /\ QueryEmbedded) =>
        TopBySimilarity(kb_out.docs, kb_call.limit, kb_call.similarity_threshold)

\* the same, for the calls whose scan of the collection succeeds
C12_TopByCosine_ScanOk ==
    (kb_call.op = "vector_search" /\ QueryEmbedded /\ store_scan = "ok") =>
        TopBySimilarity(kb_out.docs, kb_call.limit, kb_call.similarity_threshold)

\* C13: on one collection and one query, vector_search returns the same
\* documents in the same order whatever the order in which the store hands
\* the documents to the scan (ties in similarity included).
C13_TiesDeterministic ==
    (kb_call.op = "vector_search" /\ QueryEmbedded /\ store_scan = "ok") =>
        \A scan \in Orders(collection) :
            vector_search(scan, kb_call.limit, kb_call.similarity_threshold) = kb_out.docs

\* C14: hybrid_search (limit >= 1) returns an empty list only if both
\* full_text_search and vector_search at the threshold hybrid search uses
\* return empty lists for the query.
C14_EmptyOnlyIfBothEmpty ==
    (kb_call.op = "hybrid_search" /\ kb_call.limit >= 1 /\ kb_out.docs = <<>>) =>
        \A scan \in Orders(collection) :
            /\ full_text_search(scan, kb_call.limit) = <<>>
            /\ vector_search(scan, kb_call.limit, HYBRID_THRESHOLD) = <<>>

\* an empty hybrid result on a collection that holds documents, with vector
\* search on and the query embedded
C14_Witness ==
    /\ kb_call.op = "hybrid_search"
    /\ kb_out.docs = <<>>
    /\ QueryEmbedded /\ store_scan = "ok"
    /\ \E d \in collection : d.has_embedding /\ d.embedding # <<>>

\* the lexical list of n places (no two matching documents of a collection
\* share a textScore, so the scan order does not matter to it)
LexicalTop(n) == full_text_search(CHOOSE scan \in Orders(collection) : TRUE, n)

\* the eligible documents that fewer than n others beat in similarity
VectorTop(n) ==
    LET Sim(d) == cosine_similarity(bedrock.embedding, d.embedding) IN
    {d \in Eligible(HYBRID_THRESHOLD) :
        Cardinality({other \in Eligible(HYBRID_THRESHOLD) :
                        FracLess(Sim(d), Sim(other))}) < n}

\* 1/(rank+1) for a key of the lexical list (rank counted from 0), else 0
LexicalComponent(k, n) ==
    IF \E i \in 1..Len(LexicalTop(n)) : DocKey(LexicalTop(n)[i]) = k
    THEN Frac(1, CHOOSE i \in 1..Len(LexicalTop(n)) : DocKey(LexicalTop(n)[i]) = k)
    ELSE Frac(0, 1)

\* the similarity for a key of the vector list, else 0
VectorComponent(k, n) ==
    IF \E d \in VectorTop(n) : DocKey(d) = k
    THEN cosine_similarity(bedrock.embedding,
                           (CHOOSE d \in VectorTop(n) : DocKey(d) = k).embedding)
    ELSE Frac(0, 1)

CandidateKeys(n) ==
    {DocKey(LexicalTop(n)[i]) : i \in 1..Len(LexicalTop(n))}
        \cup {DocKey(d) : d \in VectorTop(n)}

\* C15: with vector search working, hybrid_search returns each candidate
\* (lexical top 2*limit united with vector top 2*limit, keyed by url, else
\* content_id) once, scored text_weight * 1/(rank+1) + vector_weight *
\* similarity with 0 for a list the document is absent from, sorted by
\* descending score and cut to limit; a document at lexical rank 0 only
\* scores 0.3 under the weights 0.3 and 0.7.
C15_HybridScores ==
    (kb_call.op = "hybrid_search" /\ QueryEmbedded /\ store_scan = "ok") =>
        LET docs == kb_out.docs
            n == 2 * kb_call.limit
            Score(k) == FracAdd(FracMul(kb_call.text_weight, LexicalComponent(k, n)),
                                FracMul(kb_call.vector_weight, VectorComponent(k, n)))
        IN  /\ Len(docs) = IF kb_call.limit < Cardinality(CandidateKeys(n))
                           THEN kb_call.limit ELSE Cardinality(CandidateKeys(n))
            /\ \A i \in 1..Len(docs) :
                  /\ DocKey(docs[i]) \in CandidateKeys(n)
                  /\ docs[i].combined_score # NoScore
                  /\ FracEq(docs[i].combined_score, Score(DocKey(docs[i])))
                  /\ ( /\ kb_call.text_weight = DEFAULT_TEXT_WEIGHT
                       /\ kb_call.vector_weight = DEFAULT_VECTOR_WEIGHT
                       /\ LexicalTop(n) # <<>>
                       /\ DocKey(docs[i]) = DocKey(LexicalTop(n)[1])
                       /\ \A d \in VectorTop(n) : DocKey(d) # DocKey(docs[i]) )
                     => FracEq(docs[i].combined_score, Frac(3, 10))
            /\ \A i, j \in 1..Len(docs) :
                  /\ i # j => DocKey(docs[i]) # DocKey(docs[j])
                  /\ i < j => FracLeq(docs[j].combined_score, docs[i].combined_score)
            /\ \A k \in CandidateKeys(n) :
                  (\A i \in 1..Len(docs) : DocKey(docs[i]) # k) =>
                      \A i \in 1..Len(docs) : FracLeq(Score(k), docs[i].combined_score)

\* a hybrid result under the default weights that holds a document found by
\* the lexical search alone, at rank 0, next to one found by both searches
C15_Witness ==
    /\ kb_call.op = "hybrid_search" /\ QueryEmbedded /\ store_scan = "ok"
    /\ kb_call.text_weight = DEFAULT_TEXT_WEIGHT
    /\ kb_call.vector_weight = DEFAULT_VECTOR_WEIGHT
    /\ \E i, j \in 1..Len(kb_out.docs) :
          /\ LexicalTop(1) # <<>>
          /\ DocKey(kb_out.docs[i]) = DocKey(LexicalTop(1)[1])
          /\ ~Stored(kb_out.docs[i]).has_embedding
          /\ FracEq(kb_out.docs[i].combined_score, Frac(3, 10))
          /\ Stored(kb_out.docs[j]) \in VectorTop(2 * kb_call.limit)
          /\ LexicalComponent(DocKey(kb_out.docs[j]), 2 * kb_call.limit) # Frac(0, 1)

\* a hybrid result cut to limit, from a vector list itself cut to 2*limit
C15_Truncated ==
    /\ kb_call.op = "hybrid_search" /\ QueryEmbedded /\ store_scan = "ok"
    /\ Len(kb_out.docs) = kb_call.limit
    /\ Cardinality(CandidateKeys(2 * kb_call.limit)) > kb_call.limit
    /\ Cardinality(Eligible(HYBRID_THRESHOLD)) > 2 * kb_call.limit

\* the documents of a result list, in its order
Ids(docs) == [i \in 1..Len(docs) |-> docs[i].content_id]

\* C16: when vector search is off or the query embedding cannot be
\* generated, hybrid_search(query, limit) does not fail and returns the
\* documents of full_text_search(query, limit) in the same order, whatever
\* the weights.
C16_FallbackIsLexical ==
    (kb_call.op = "hybrid_search" /\ (~enable_vector_search \/ ~QueryEmbedded)) =>
        /\ ~kb_out.raised
        /\ \A scan \in Orders(collection) :
              Ids(kb_out.docs) = Ids(full_text_search(scan, kb_call.limit))

\* vector search is on, the provider fails, and hybrid_search returns limit
\* documents out of more matches, under a text_weight of 0 (all scores tie)
C16_Witness ==
    /\ kb_call.op = "hybrid_search"
    /\ enable_vector_search /\ bedrock.kind = "raises"
    /\ kb_call.text_weight = Frac(0, 1)
    /\ Len(kb_out.docs) = kb_call.limit /\ kb_call.limit >= 2
    /\ Len(LexicalTop(kb_call.limit + 1)) > kb_call.limit

\* C17: hybrid_search never returns a result list built from vector results
\* alone while its lexical search failed: the failure aborts the query.
C17_LexicalFailureAborts ==
    (kb_call.op = "hybrid_search" /\ text_index = "down") =>
        (kb_out.raised \/ kb_out.docs = <<>>)

\* C18: when the text query fails, full_text_search reports the failure, so
\* that search_uit_knowledge answers with its error message and not with the
\* message of a query that matches nothing.
C18_FailureReported ==
    (kb_call.op = "search_uit_knowledge" /\ text_index = "down") =>
        /\ kb_out.answer = SearchError
        /\ kb_out.answer # NotFound(kb_call.query)

\* C19: when the search matches no document, search_uit_knowledge returns
\* the not-found message for the query as a normal return value: it does not
\* raise and the text is not empty.
C19_NotFoundMessage ==
    (kb_call.op = "search_uit_knowledge" /\ uit_full_text_search(kb_call.matches) = <<>>) =>
        /\ ~kb_out.raised
        /\ kb_out.answer.kind = "not_found"
        /\ kb_out.answer.query = kb_call.query
        /\ kb_out.answer.items = <<>>

\* a search on a working text index that matches nothing
C19_Witness ==
    /\ kb_call.op = "search_uit_knowledge"
    /\ text_index = "up" /\ kb_call.matches = <<>>
    /\ kb_call.query # <<>>
    /\ kb_out.answer = NotFound(kb_call.query)

\* C20: generate_embedding never raises; on a provider error or an empty
\* embedding it returns None; it asks the provider at most once.
C20_EmbeddingNeverRaises ==
    kb_call.op = "generate_embedding" =>
        /\ ~kb_out.raised
        /\ kb_out.invocations <= 1
        /\ (bedrock.kind # "ok" \/ bedrock.embedding = <<>>) => kb_out.value = NoEmbedding
        /\ (enable_vector_search /\ bedrock.kind # "ok") => kb_out.invocations = 1
        /\ QueryEmbedded => kb_out.value = Embedding(bedrock.embedding)

\* the provider raised, was asked once, and the caller got None
C20_Witness ==
    /\ kb_call.op = "generate_embedding"
    /\ enable_vector_search /\ bedrock.kind = "raises"
    /\ kb_out.invocations = 1
    /\ kb_out.value = NoEmbedding /\ ~kb_out.raised

(***************************************************************************)
(* The document store                                                      *)
(***************************************************************************)
\* a stored document without the _id the store gave it
Fields(d) == [k \in (DOMAIN d) \ {"_id"} |-> d[k]]

\* C22: after any sequence of add_document calls the store holds, for every
\* content_id written, exactly one document, and it has exactly the fields
\* the last add_document that returned for that id was given, with content_id
\* and updated_at; no document with a content_id is held that was not written
\* so. Nothing of the replaced version, its embedding included, survives.
C22_UpsertReplaces ==
    /\ \A content_id \in DOMAIN added :
          \E d \in store :
             /\ Matching(store, content_id) = {d}
             /\ Fields(d) = added[content_id]
    /\ \A d \in store : Has(d, "content_id") => d.content_id \in DOMAIN added

\* a stored document with an embedding has been replaced by one without
C22_Witness ==
    /\ add_result = "written"
    /\ replaced # NoDoc
    /\ Has(replaced, "embedding")
    /\ \E d \in store : d._id = replaced._id /\ ~Has(d, "embedding")

\* C23: after any sequence of setup_indexes and add_document calls no two
\* stored documents have the same url.
C23_UrlUnique ==
    \A d1 \in store, d2 \in store : d1 # d2 => d1.url # d2.url

\* where the unique index exists (setup_indexes ran through on a collection
\* without duplicates) the urls are distinct
C23_UniqueUnderIndex == url_index => C23_UrlUnique

\* C24: no stored document has a content of fewer than 100 characters.
C24_NoShortContent ==
    \A d \in store : d.content >= MIN_CONTENT_LENGTH

\* what the crawler saves is longer than the minimum
C24_CrawlerKeepsMinimum ==
    \A i \in 1..Len(crawler_documents) :
       crawler_documents[i].content > MIN_CONTENT_LENGTH

(***************************************************************************)
(* The embedding call that is never answered                               *)
(***************************************************************************)
\* the pending embedding call of a search was given up, and the search has
\* its result
GivenUp ==
    /\ kb_call.op \in {"vector_search", "hybrid_search"}
    /\ Unanswered
    /\ ~awaiting

C21_ReturnsOnceAnswered ==
    (kb_call # NoCall /\ ~awaiting) ~> (kb_call = NoCall)

\* a search is waiting for invoke_model
C21_Pending ==
    /\ kb_call.op \in {"vector_search", "hybrid_search"}
    /\ awaiting

(***************************************************************************)
(* What chat hands back                                                    *)
(***************************************************************************)
\* C25: chat returns a text string for every shape of agent result, and only
\* text strings are stored in RESPONSE_CACHE.
C25_ChatReturnsText ==
    /\ \A p \in Threads : ChatDone(p) => ret[p].type = "str"
    /\ \A k \in DOMAIN RESPONSE_CACHE : RESPONSE_CACHE[k].type = "str"

(***************************************************************************)
(* The rate limit and the input checks (guardrails.py)                     *)
(***************************************************************************)
\* the entries of times inside the window that ends at the instant at
InWindow(times, at) ==
    {j \in 1..Len(times) : times[j] <= at /\ at - times[j] < Window}

\* the step is a validate_input call
Validated == validations' # validations

\* C26: for each user at most RATE_LIMIT_MAX_REQUESTS calls inside any window
\* of RATE_LIMIT_WINDOW seconds pass the rate check; a call is turned away
\* with the wait message exactly when that many of the user's calls passed
\* inside the window that ends with it; a call changes nothing for the other
\* users.
C26_RateLimit ==
    /\ [](/\ \A u \in Users : \A i \in 1..Len(passes[u]) :
               Cardinality(InWindow(passes[u], passes[u][i]))
                  <= RATE_LIMIT_MAX_REQUESTS
          /\ verdict.error = "rate" =>
                Cardinality(InWindow(passes[verdict.user_id], verdict.at))
                   = RATE_LIMIT_MAX_REQUESTS)
    /\ [][Validated =>
            \A u \in Users \ {verdict'.user_id} :
               /\ USER_RATE_LIMITS'[u] = USER_RATE_LIMITS[u]
               /\ passes'[u] = passes[u]]_vars

\* a user is let through while the other user is at the limit
C26_Witness ==
    /\ verdict.error \notin {"rate", "no_call"}
    /\ \E u \in Users \ {verdict.user_id} :
          /\ Len(Recent(USER_RATE_LIMITS[u], clock)) = RATE_LIMIT_MAX_REQUESTS
          /\ Len(passes[u]) > RATE_LIMIT_MAX_REQUESTS

\* a message of a permitted length that is no spam
Ordinary(text) ==
    /\ Len(text) >= min_message_length
    /\ Len(text) <= max_message_length
    /\ ~is_spam(text)

\* C27: whatever else the user has sent just before, validate_input rejects a
\* message that contains a blocked keyword and accepts a clean one.
C27_KeywordsDecide ==
    (verdict.error # "no_call" /\ Ordinary(verdict.message)) =>
       (verdict.is_valid <=> ~check_blocked_keywords(verdict.message))

\* a message with a blocked keyword is never accepted
C27_BlockedRejected ==
    (verdict.error # "no_call" /\ check_blocked_keywords(verdict.message)) =>
       ~verdict.is_valid

\* The statement of C28_WaitExact for the whole seconds validate_input prints
\* in its message (line 113, wait_time rounded by ":.0f") in place of the
\* wait_time itself
C28_WaitAsTold ==
    /\ [](verdict.error = "rate" =>
             verdict.told > 0 /\ verdict.told <= RATE_LIMIT_WINDOW)
    /\ [][(Validated /\ verdict'.error = "rate") =>
            /\ passes' = passes
            /\ Len(USER_RATE_LIMITS'[verdict'.user_id])
                  <= Len(USER_RATE_LIMITS[verdict'.user_id])]_vars
    /\ [][(/\ Validated
            /\ verdict.error = "rate"
            /\ verdict'.user_id = verdict.user_id
            /\ clock = verdict.at + verdict.told * TicksPerSecond) =>
              verdict'.error # "rate"]_vars

Unlabelled(k) ==
    IF Len(chunks) > 1
    THEN SubSeq(posted[k].text, Len(Prefix(k - 1, Len(chunks))) + 1,
                Len(posted[k].text))
    ELSE posted[k].text

\* the first k texts posted, unlabelled, one after the other
RECURSIVE Joined(_)
Joined(k) == IF k = 0 THEN <<>> ELSE Joined(k - 1) \o Unlabelled(k)

\* the chunks are posted in order, each numbered "[k/n]" when there are
\* several, and without the numbers they add up to the message
C29_ChunksInOrder ==
    /\ \A k \in 1..Len(posted) :
          /\ Len(chunks) > 1 =>
                SubSeq(posted[k].text, 1, Len(Prefix(k - 1, Len(chunks))))
                   = Prefix(k - 1, Len(chunks))
          /\ Unlabelled(k) = chunks[k]
    /\ (~sending /\ chunks # <<>>) =>
          /\ Len(posted) = Len(chunks)
          /\ Joined(Len(posted)) = original

\* a message of more than max_length characters has been sent in full
C29_SentInChunks ==
    /\ ~sending
    /\ Len(posted) > 1
    /\ Joined(Len(posted)) = original

\* C29: send_zalo_message posts the message as consecutive chunks in order,
\* the chunks without their "[i/n]" prefix concatenate to the message, and
\* every text posted is at most max_length (2000) characters long.
C29_PostedFits ==
    /\ C29_ChunksInOrder
    /\ \A k \in 1..Len(posted) : Len(posted[k].text) <= max_length

(***************************************************************************)
(* UEHCrawler.run                                                          *)
(***************************************************************************)
\* no element of s occurs in it twice
NoRepeats(s) == Cardinality({s[i] : i \in 1..Len(s)}) = Len(s)

\* C30: run fetches no URL more than once and at most MAX_PAGES pages,
\* to_visit never holds a URL twice, and the loop ends (to_visit empty or the
\* page limit reached) whatever links the pages carry.
C30_CrawlBounded ==
    /\ [](/\ NoRepeats(fetched)
          /\ Len(fetched) <= MAX_PAGES
          /\ pages_crawled = Len(fetched)
          /\ NoRepeats(to_visit))
    /\ <>(crawl_pc = "done")

\* the loop has ended at the page limit with URLs still waiting
C30_Witness ==
    /\ crawl_pc = "done"
    /\ pages_crawled = MAX_PAGES
    /\ Len(fetched) = MAX_PAGES
    /\ to_visit # <<>>

\* the loop has ended on an empty queue after crawling pages found by links
C30_Exhausted ==
    /\ crawl_pc = "done"
    /\ to_visit = <<>>
    /\ pages_crawled > Len(START_URLS)

====
